---- MODULE Spec2Model ----
(***************************************************************************)
(* Step detection, sampling-rate estimation, response metrics, the tuning  *)
(* functions (fitness, validation, hill climbing, slider heuristic, step   *)
(* simulation, dump parsing, CLI generation) and the log loading worker of *)
(* the Open-Tuning-Tool, as state machines.                                *)
(*                                                                         *)
(* Conventions                                                             *)
(*  - A pandas Series / numpy array is a sequence; Python index i is       *)
(*    element i+1 (see At).  Indices in the model are the Python indices.  *)
(*  - None is the record NoneSeries; a Series s is SeriesOf(s).            *)
(*  - Floating point is modelled by exact rational arithmetic: every       *)
(*    comparison of the source is cross-multiplied into integers.          *)
(*  - NaN is the record NaN; a number x is Num(x).                         *)
(***************************************************************************)
EXTENDS Integers, Sequences, FiniteSets, TLC

VARIABLES
    \* ---- find_step_responses (system_identification / step_response /
    \*      advanced_step_analyzer) ----
    variant,              \* which file's find_step_responses is running
    rc_command,           \* argument rc_command (None or Series)
    time_us,              \* argument time_us (None or Series)
    params,               \* keyword arguments of the call
    pc,                   \* position inside the function
    pre_indices,          \* local pre_indices
    post_indices,         \* local post_indices
    min_duration_indices, \* local min_duration_indices
    pos,                  \* position of the for loop in potential_steps
    found_steps,          \* local found_steps
    last_step_end,        \* local last_step_end
    outcome,              \* "none" | "returned" | "raised"
    \* ---- noise.get_sampling_frequency ----
    time_series_us,       \* argument time_series_us (None or Series)
    fs_result,            \* the returned frequency (a rational number of Hz)
    fs_pc,                \* "call" | "done"
    \* ---- step_response_metrics / calculate_response_metrics ----
    m_variant,            \* "system_identification" | "tuning"
    m_time,               \* argument time
    m_input,              \* argument input_signal (system_identification only)
    m_output,             \* argument output_signal / response
    m_result,             \* the returned dict: a function from keys to values
    m_outcome,            \* "none" | "returned" | "raised"
    m_pc,                 \* "call" | "done"
    \* ---- step_response_fixed.find_step_responses ----
    f_rc_command,         \* argument rc_command (None or Series)
    f_time_us,            \* argument time_us (None or Series)
    f_params,             \* keyword arguments of the call
    f_pc,                 \* "start" | "scan" | "done"
    f_i,                  \* loop variable i of the candidate scan
    candidates,           \* local candidates
    f_windows,            \* the idx of each entry of the returned "windows"
    f_outcome,            \* "none" | "returned" | "raised"
    \* ---- tuning._calculate_fitness ----
    fit_metrics,          \* argument metrics (a dict)
    fit_weights,          \* argument weights (a dict)
    fit_result,           \* the returned score
    fit_pc,               \* "call" | "done"
    \* ---- tuning.validate_settings ----
    v_proposed,           \* argument proposed_pids
    v_original,           \* argument original_pids
    v_safe_ranges,        \* drone_profile["safe_ranges"]
    v_warnings,           \* the returned list, one <<check, key>> per warning
    v_outcome,            \* "none" | "returned" | "raised"
    v_pc,                 \* "call" | "done"
    \* ---- tuning.find_optimal_tune ----
    o_initial_pids,       \* argument initial_pids
    o_mode,               \* argument mode
    o_iterations,         \* argument iterations
    o_pc,                 \* "start" | "loop" | "done"
    o_count,              \* iterations of the for loop started so far
    best_pids,            \* local best_pids
    best_fitness,         \* local best_fitness
    o_result,             \* the returned GainSet
    o_outcome,            \* "none" | "returned" | "raised"
    \* ---- tuning.tune_with_sliders ----
    s_base_pids,          \* argument base_pids
    s_iterations,         \* argument iterations
    s_pc,                 \* "loop" | "done"
    s_count,              \* iterations of the for loop started so far
    sliders,              \* local sliders, in hundredths
    s_result,             \* the returned final_pids
    s_outcome,            \* "none" | "returned" | "raised"
    \* ---- the slider adjustment of one iteration (tune_with_sliders 260-278) ----
    a_sliders,            \* sliders before the adjustment, in hundredths
    a_metrics,            \* the measured metrics
    a_result,             \* sliders after the adjustment and the clamp
    a_pc,                 \* "call" | "done"
    \* ---- tuning.simulate_step_response ----
    sim_pids,             \* argument pids
    sim_axis,             \* argument axis
    sim_time_steps,       \* argument time_steps
    sim_duration,         \* argument duration, in seconds
    sim_magnitude,        \* argument disturbance_magnitude
    sim_disturbance_time, \* argument disturbance_time, a rational of seconds
    sim_gains,            \* the gains read from pids: <<p, i, d>> before scaling
    sim_i,                \* loop variable i
    sim_applied,          \* iterations in which the disturbance was added
    sim_result,           \* "none" | "dict" | "tuple_of_none"
    sim_pc,               \* "start" | "loop" | "done"
    \* ---- tuning.generate_cli ----
    cli_pids,             \* argument pids
    cli_lines,            \* the lines of the returned text
    cli_pc,               \* "call" | "done"
    \* ---- tuning.parse_dump ----
    dump_lines,           \* the lines of the dump file
    dump_settings,        \* the returned settings (NoSettings for None)
    dump_pc,              \* "call" | "done"
    \* ---- GainSets as objects: propose_tune, _compute_pids_from_sliders,
    \*      find_optimal_tune, tune_with_sliders ----
    heap,                 \* the dict objects: reference n is heap[n]
    fr_function,          \* the function called
    fr_iterations,        \* argument iterations
    fr_input,             \* reference of the GainSet passed by the caller
    fr_before,            \* the content of that GainSet before the call
    fr_result,            \* reference of the returned GainSet (0: none)
    fr_outcome,           \* "none" | "returned" | "raised"
    fr_pc,                \* "call" | "done"
    \* ---- gui.worker.LogLoaderWorker.process_files ----
    w_file_paths,         \* argument file_paths: what load_log does on each
    w_i,                  \* loop variable i
    w_pc,                 \* "progress" | "load" | "ready" | "done"
    w_emitted             \* the signals emitted so far, in order

varsDetect == <<variant, rc_command, time_us, params, pc, pre_indices,
                post_indices, min_duration_indices, pos, found_steps,
                last_step_end, outcome>>

varsSampling == <<time_series_us, fs_result, fs_pc>>

varsMetrics == <<m_variant, m_time, m_input, m_output, m_result, m_outcome, m_pc>>

varsFixed == <<f_rc_command, f_time_us, f_params, f_pc, f_i, candidates,
               f_windows, f_outcome>>

varsFitness == <<fit_metrics, fit_weights, fit_result, fit_pc>>

varsValidate == <<v_proposed, v_original, v_safe_ranges, v_warnings, v_outcome,
                  v_pc>>

varsOptimizer == <<o_initial_pids, o_mode, o_iterations, o_pc, o_count,
                   best_pids, best_fitness, o_result, o_outcome>>

varsSliders == <<s_base_pids, s_iterations, s_pc, s_count, sliders, s_result,
                 s_outcome>>

varsAdjust == <<a_sliders, a_metrics, a_result, a_pc>>

varsTuning == <<varsFitness, varsValidate, varsOptimizer, varsSliders, varsAdjust>>

varsAnalysis == <<varsDetect, varsSampling, varsMetrics, varsFixed>>

varsSimulate == <<sim_pids, sim_axis, sim_time_steps, sim_duration, sim_magnitude,
                  sim_disturbance_time, sim_gains, sim_i, sim_applied, sim_result,
                  sim_pc>>

varsCli == <<cli_pids, cli_lines, cli_pc>>

varsDump == <<dump_lines, dump_settings, dump_pc>>

varsFrame == <<heap, fr_function, fr_iterations, fr_input, fr_before, fr_result,
               fr_outcome, fr_pc>>

varsWorker == <<w_file_paths, w_i, w_pc, w_emitted>>

varsOutput == <<varsSimulate, varsCli, varsDump, varsFrame, varsWorker>>

vars == <<varsAnalysis, varsTuning, varsOutput>>

\* What each component leaves alone
othersDetect == <<varsSampling, varsMetrics, varsFixed, varsTuning, varsOutput>>
othersSampling == <<varsDetect, varsMetrics, varsFixed, varsTuning, varsOutput>>
othersMetrics == <<varsDetect, varsSampling, varsFixed, varsTuning, varsOutput>>
othersFixed == <<varsDetect, varsSampling, varsMetrics, varsTuning, varsOutput>>
othersFitness == <<varsAnalysis, varsValidate, varsOptimizer, varsSliders, varsAdjust,
                    varsOutput>>
othersValidate == <<varsAnalysis, varsFitness, varsOptimizer, varsSliders, varsAdjust,
                    varsOutput>>
othersOptimizer == <<varsAnalysis, varsFitness, varsValidate, varsSliders, varsAdjust,
                    varsOutput>>
othersSliders == <<varsAnalysis, varsFitness, varsValidate, varsOptimizer, varsAdjust,
                    varsOutput>>
othersAdjust == <<varsAnalysis, varsFitness, varsValidate, varsOptimizer, varsSliders,
                    varsOutput>>
othersSimulate == <<varsAnalysis, varsTuning, varsCli, varsDump, varsFrame, varsWorker>>
othersCli == <<varsAnalysis, varsTuning, varsSimulate, varsDump, varsFrame, varsWorker>>
othersDump == <<varsAnalysis, varsTuning, varsSimulate, varsCli, varsFrame, varsWorker>>
othersFrame == <<varsAnalysis, varsTuning, varsSimulate, varsCli, varsDump, varsWorker>>
othersWorker == <<varsAnalysis, varsTuning, varsSimulate, varsCli, varsDump, varsFrame>>

(***************************************************************************)
(* Bounds of the model                                                     *)
(***************************************************************************)
MaxLen == 8

(***************************************************************************)
(* Generic helpers                                                         *)
(***************************************************************************)
NoneSeries == [none |-> TRUE, v |-> <<>>]
SeriesOf(s) == [none |-> FALSE, v |-> s]

\* A float is a rational num/den, or NaN
NaN == [nan |-> TRUE, num |-> 0, den |-> 1]
Val(n, d) == [nan |-> FALSE, num |-> n, den |-> d]
Num(x) == Val(x, 1)

\* Equality and sign of two non-NaN rationals (denominators may be negative)
SameVal(a, b) ==
    \/ a.nan /\ b.nan
    \/ ~a.nan /\ ~b.nan /\ a.num * b.den = b.num * a.den
IsPositive(a) == ~a.nan /\ a.den # 0 /\ a.num * a.den > 0
IsZero(a) == ~a.nan /\ a.den # 0 /\ a.num = 0

EmptyDict == [k \in {} |-> NaN]

At(s, i) == s[i + 1]

\* Python slice s[a:b] for 0 <= a, with b clipped to the length
Slice(s, a, b) ==
    LET hi == IF b > Len(s) THEN Len(s) ELSE b
    IN  IF a >= hi THEN <<>> ELSE SubSeq(s, a + 1, hi)

Abs(x) == IF x < 0 THEN -x ELSE x

RECURSIVE Sum(_)
Sum(s) == IF Len(s) = 0 THEN 0 ELSE Head(s) + Sum(Tail(s))

RECURSIVE SumSq(_)
SumSq(s) == IF Len(s) = 0 THEN 0 ELSE Head(s) * Head(s) + SumSq(Tail(s))

\* int(n / d) for d > 0: truncation toward zero
Trunc(n, d) == IF n >= 0 THEN n \div d ELSE -((-n) \div d)

SeqsUpTo(S, n) == UNION {[1..k -> S] : k \in 0..n}

(***************************************************************************)
(* find_step_responses: the three variants that derive sample counts from  *)
(* the timestamps                                                          *)
(***************************************************************************)
Variants == {"system_identification", "step_response", "advanced_step_analyzer"}

FALLBACK_FS == 2000
ADVANCED_STD_MAX == 50

\* Sampling rate as a rational number of Hz, or infinity
Finite(n, d) == [kind |-> "finite", num |-> n, den |-> d]
Infinite == [kind |-> "inf", num |-> 0, den |-> 1]

\* time_s.iloc[-1] - time_s.iloc[0], in microseconds
DurationUs(t) == t[Len(t)] - t[1]

\* system_identification.py 12-16: guarded, falls back to 2000
GuardedFs(t) ==
    IF DurationUs(t) > 0 /\ Len(t) > 1
    THEN Finite(Len(t) * 1000000, DurationUs(t))
    ELSE Finite(FALLBACK_FS, 1)

\* step_response.py 28-29: fs = len(time_us) / (last - first), unguarded.
\* The operands are numpy floats: a zero duration gives inf, not an exception.
UnguardedFs(t) ==
    IF DurationUs(t) = 0
    THEN Infinite
    ELSE Finite(Len(t) * 1000000, DurationUs(t))

FsOf(var, t) ==
    IF var = "step_response" THEN UnguardedFs(t) ELSE GuardedFs(t)

\* ms_to_indices = lambda ms: int((ms / 1000.0) * fs); int() of inf or nan raises
MsToIndicesRaises(fs) == fs.kind = "inf"

ms_to_indices(ms, fs) == Trunc(ms * fs.num, 1000 * fs.den)

\* Series.std() < limit, ddof = 1: NaN for fewer than two samples, and a
\* comparison with NaN is False
StdBelow(seg, limit) ==
    LET n == Len(seg)
    IN  /\ n >= 2
        /\ limit > 0
        /\ n * SumSq(seg) - Sum(seg) * Sum(seg) < limit * limit * n * (n - 1)

\* diffs = rc_command.diff().abs(); potential_steps = diffs[diffs > threshold].index
IsPotentialStep(rc, thr, i) == i >= 1 /\ Abs(At(rc, i) - At(rc, i - 1)) > thr

RECURSIVE PotentialFrom(_, _, _)
PotentialFrom(rc, thr, i) ==
    IF i >= Len(rc) THEN <<>>
    ELSE IF IsPotentialStep(rc, thr, i)
         THEN <<i>> \o PotentialFrom(rc, thr, i + 1)
         ELSE PotentialFrom(rc, thr, i + 1)

potential_steps == PotentialFrom(rc_command.v, params.threshold, 1)

\* The limit of the stability check of each variant; step_response.py has none
StdLimit(var) ==
    IF var = "system_identification" THEN params.std_dev_max ELSE ADVANCED_STD_MAX

\* (mutation of Skipped: the end test off by one, `>` for `>=`)
SkippedEndOffByOne(i) ==
    \/ i <= last_step_end
    \/ i < pre_indices
    \/ i + post_indices > Len(rc_command.v)

\* (mutation of Skipped: the start test off by one, `<=` for `<`)
SkippedStartOffByOne(i) ==
    \/ i <= last_step_end
    \/ i <= pre_indices
    \/ i + post_indices >= Len(rc_command.v)

\* The `continue` test at the head of the loop body
Skipped(i) ==
    \/ i <= last_step_end
    \/ i < pre_indices
    \/ i + post_indices >= Len(rc_command.v)

\* The stability test on the two segments around i
Stable(i) ==
    \/ variant = "step_response"
    \/ /\ StdBelow(Slice(rc_command.v, i - pre_indices, i), StdLimit(variant))
       /\ StdBelow(Slice(rc_command.v, i, i + post_indices), StdLimit(variant))

Accepted(i) ==
    /\ ~Skipped(i)
    /\ Stable(i)
    /\ (i + post_indices) - i > min_duration_indices

Window(i) == <<i - pre_indices, i, i + post_indices>>

(***************************************************************************)
(* Inputs                                                                  *)
(***************************************************************************)
Levels == {0, 500}
TimeSteps == {0, 500}
Thresholds == {-1, 300}
PreMs == {0, 1, 2}
PostMs == {0, 1, 2}
MinMs == {0, 1}
StdDevMaxes == {50}

EvenTimes(n, dt) == [k \in 1..n |-> (k - 1) * dt]

\* system_identification is called over the whole range of parameters; the
\* variants without a std_dev_max argument, which differ from it only in the
\* sampling rate and the stability test, over a few of them
ParamSets(var) ==
    IF var = "system_identification"
    THEN [threshold : Thresholds,
          min_step_duration_ms : MinMs,
          pre_step_flat_ms : PreMs,
          post_step_flat_ms : PostMs,
          std_dev_max : StdDevMaxes]
    ELSE [threshold : {300},
          min_step_duration_ms : MinMs,
          pre_step_flat_ms : {1},
          post_step_flat_ms : {1, 2},
          std_dev_max : {50}]

DetectIdle ==
    /\ variant = "idle"
    /\ rc_command = NoneSeries
    /\ time_us = NoneSeries
    /\ params = [threshold |-> 0, min_step_duration_ms |-> 0,
                 pre_step_flat_ms |-> 0, post_step_flat_ms |-> 0,
                 std_dev_max |-> 0]
    /\ pc = "idle"
    /\ pre_indices = 0
    /\ post_indices = 0
    /\ min_duration_indices = 0
    /\ pos = 0
    /\ found_steps = <<>>
    /\ last_step_end = -1
    /\ outcome = "none"

DetectInit ==
    /\ variant \in Variants
    /\ \/ /\ rc_command = NoneSeries
          /\ time_us \in {NoneSeries, SeriesOf(EvenTimes(2, 500))}
       \/ /\ rc_command \in {SeriesOf(s) : s \in SeqsUpTo(Levels, 2)}
          /\ time_us = NoneSeries
       \/ /\ rc_command \in {SeriesOf(s) : s \in SeqsUpTo(Levels, MaxLen)}
          /\ time_us \in
                {SeriesOf(EvenTimes(Len(rc_command.v), dt)) : dt \in TimeSteps}
    /\ params \in ParamSets(variant)
    /\ pc = "start"
    /\ pre_indices = 0
    /\ post_indices = 0
    /\ min_duration_indices = 0
    /\ pos = 0
    /\ found_steps = <<>>
    /\ last_step_end = -1
    /\ outcome = "none"

(***************************************************************************)
(* Actions of find_step_responses                                          *)
(***************************************************************************)
\* Lines 9-10: the guard on null / empty input
EnterGuard ==
    /\ pc = "start"
    /\ (rc_command.none \/ time_us.none \/ Len(rc_command.v) = 0)
    /\ pc' = "done"
    /\ outcome' = "returned"
    /\ UNCHANGED <<variant, rc_command, time_us, params, pre_indices,
                   post_indices, min_duration_indices, pos, found_steps,
                   last_step_end>>
    /\ UNCHANGED othersDetect

\* Lines 12-28: sampling rate, duration-to-sample conversion, loop set-up
EnterConvert ==
    /\ pc = "start"
    /\ ~(rc_command.none \/ time_us.none \/ Len(rc_command.v) = 0)
    /\ LET fs == FsOf(variant, time_us.v)
       IN  IF MsToIndicesRaises(fs)
           THEN /\ pc' = "done"
                /\ outcome' = "raised"
                /\ UNCHANGED <<pre_indices, post_indices, min_duration_indices>>
           ELSE /\ pc' = "loop"
                /\ outcome' = "none"
                /\ pre_indices' = ms_to_indices(params.pre_step_flat_ms, fs)
                /\ post_indices' = ms_to_indices(params.post_step_flat_ms, fs)
                /\ min_duration_indices' =
                       ms_to_indices(params.min_step_duration_ms, fs)
    /\ UNCHANGED <<variant, rc_command, time_us, params, pos, found_steps,
                   last_step_end>>
    /\ UNCHANGED othersDetect

\* One iteration of `for i in potential_steps`
Iterate ==
    /\ pc = "loop"
    /\ pos < Len(potential_steps)
    /\ LET i == potential_steps[pos + 1]
       IN  IF Accepted(i)
           THEN /\ found_steps' = Append(found_steps, Window(i))
                /\ last_step_end' = i + post_indices
           ELSE UNCHANGED <<found_steps, last_step_end>>
    /\ pos' = pos + 1
    /\ UNCHANGED <<variant, rc_command, time_us, params, pc, pre_indices,
                   post_indices, min_duration_indices, outcome>>
    /\ UNCHANGED othersDetect

\* return found_steps
Return ==
    /\ pc = "loop"
    /\ pos = Len(potential_steps)
    /\ pc' = "done"
    /\ outcome' = "returned"
    /\ UNCHANGED <<variant, rc_command, time_us, params, pre_indices,
                   post_indices, min_duration_indices, pos, found_steps,
                   last_step_end>>
    /\ UNCHANGED othersDetect

(***************************************************************************)
(* noise.get_sampling_frequency                                            *)
(***************************************************************************)
DEFAULT_FS == 2000
MaxTimes == 4
TimeValues == {0, 500, 1000}

Idx(s) == 0..(Len(s) - 1)
Min(S) == CHOOSE x \in S : \A y \in S : x <= y
Max(S) == CHOOSE x \in S : \A y \in S : x >= y

\* Sum of time_series_us.diff(); mean() skips the leading NaN, so the mean
\* interval is SumDiffs / (n - 1) microseconds
RECURSIVE SumDiffs(_)
SumDiffs(t) == IF Len(t) < 2 THEN 0 ELSE (t[2] - t[1]) + SumDiffs(Tail(t))

\* A frequency is kept in samples per microsecond: f Hz is f / 10^6
Hz(f) == Val(f, 1000000)

\* (mutation of get_sampling_frequency: the `avg_period <= 0` fallback left out)
GsfWithoutFallback(ts) ==
    IF ts.none \/ Len(ts.v) < 2
    THEN Hz(DEFAULT_FS)
    ELSE Val(Len(ts.v) - 1, SumDiffs(ts.v))

\* avg_period = SumDiffs / (n - 1) microseconds, fs = 1.0 / avg_period
get_sampling_frequency(ts) ==
    IF ts.none \/ Len(ts.v) < 2
    THEN Hz(DEFAULT_FS)
    ELSE LET n == Len(ts.v)
             sumd == SumDiffs(ts.v)
         IN  IF sumd <= 0
             THEN IF DurationUs(ts.v) > 0
                  THEN Val(n - 1, DurationUs(ts.v))
                  ELSE Hz(DEFAULT_FS)
             ELSE Val(n - 1, sumd)

SamplingIdle ==
    /\ time_series_us = NoneSeries
    /\ fs_result = NaN
    /\ fs_pc = "idle"

SamplingInit ==
    /\ time_series_us \in {NoneSeries} \cup
           {SeriesOf(s) : s \in SeqsUpTo(TimeValues, MaxTimes)}
    /\ fs_result = NaN
    /\ fs_pc = "call"

CallGetSamplingFrequency ==
    /\ fs_pc = "call"
    /\ fs_result' = get_sampling_frequency(time_series_us)
    /\ fs_pc' = "done"
    /\ UNCHANGED time_series_us
    /\ UNCHANGED othersSampling

(***************************************************************************)
(* system_identification.step_response_metrics and                         *)
(* tuning.calculate_response_metrics                                       *)
(***************************************************************************)
MEAN_SAMPLES == 10
MaxMid == 3
MaxResp == 5
OutputLevels == {0, 25, 50, 51}
ResponseLevels == {-50, 0, 50, 51}

RISE == "Rise Time (s)"
OVERSHOOT == "Overshoot (%)"
SETTLING == "Settling Time (s)"
OSCILLATION == "Oscillation"
AMPLITUDE == "Step Amplitude"

Values(s) == {s[k] : k \in 1..Len(s)}

\* time[k], an IndexError (here NaN, as every caller catches it) past the end
TimeAt(t, k) == IF k < Len(t) THEN Num(At(t, k)) ELSE NaN

Minus(a, b) == IF a.nan \/ b.nan THEN NaN ELSE Num(a.num - b.num)

\* ---- step_response_metrics(time, input_signal, output_signal) ----
\* output_signal.iloc[:10] and output_signal.iloc[-10:]
FirstSamples(y) == Slice(y, 0, MEAN_SAMPLES)
LastSamples(y) ==
    Slice(y, IF Len(y) > MEAN_SAMPLES THEN Len(y) - MEAN_SAMPLES ELSE 0, Len(y))
\* val_i_out = Si / Nm, val_f_out = Sf / Nm
Nm(y) == Len(FirstSamples(y))
Si(y) == Sum(FirstSamples(y))
Sf(y) == Sum(LastSamples(y))

\* output_signal >= val_i_out + tenths/10 * (val_f_out - val_i_out)
AtOrAbove(y, tenths) ==
    {k \in Idx(y) : 10 * Nm(y) * At(y, k) >= (10 - tenths) * Si(y) + tenths * Sf(y)}

SysRiseTime(t, y) ==
    IF AtOrAbove(y, 1) = {} \/ AtOrAbove(y, 9) = {}
    THEN NaN
    ELSE Minus(TimeAt(t, Min(AtOrAbove(y, 9))), TimeAt(t, Min(AtOrAbove(y, 1))))

SysOvershoot(y) ==
    IF Sf(y) - Si(y) # 0
    THEN Val(100 * (Nm(y) * Max(Values(y)) - Sf(y)), Sf(y) - Si(y))
    ELSE Num(0)

\* np.abs(output - val_f_out) > 0.02 * abs(val_f_out - val_i_out)
SysOutside(y) == {k \in Idx(y) : 50 * Abs(Nm(y) * At(y, k) - Sf(y)) > Abs(Sf(y) - Si(y))}

SysSettlingTime(t, y) ==
    LET last_outside_index == IF SysOutside(y) # {} THEN Max(SysOutside(y)) ELSE 0
    IN  Minus(TimeAt(t, last_outside_index), TimeAt(t, 0))

step_response_metrics(t, u, y) ==
    (AMPLITUDE :> Num(Abs(u[Len(u)] - u[1]))) @@
    (RISE :> SysRiseTime(t, y)) @@
    (OVERSHOOT :> SysOvershoot(y)) @@
    (SETTLING :> SysSettlingTime(t, y))

\* input_signal.iloc[0] on an empty slice: IndexError, not caught
StepResponseMetricsRaises(u) == Len(u) = 0

\* ---- calculate_response_metrics(time, response) ----
\* final_value = np.mean(response[int(len(response) * 0.9):]) = St / Nt
FinalPart(r) == Slice(r, (Len(r) * 9) \div 10, Len(r))
Nt(r) == Len(FinalPart(r))
St(r) == Sum(FinalPart(r))

TunOvershoot(r) ==
    IF St(r) # 0
    THEN Val(100 * (Nt(r) * Max(Values(r)) - St(r)), St(r))
    ELSE Num(0)

\* response >= tenths/10 * final_value
TunAtOrAbove(r, tenths) == {k \in Idx(r) : 10 * Nt(r) * At(r, k) >= tenths * St(r)}

TunRiseTime(t, r) ==
    IF TunAtOrAbove(r, 1) = {} \/ TunAtOrAbove(r, 9) = {}
    THEN NaN
    ELSE Minus(TimeAt(t, Min(TunAtOrAbove(r, 9))), TimeAt(t, Min(TunAtOrAbove(r, 1))))

\* np.abs(response - final_value) > 0.02 * final_value: the threshold is signed
TunUnsettled(r) == {k \in Idx(r) : 50 * Abs(Nt(r) * At(r, k) - St(r)) > St(r)}

TunSettlingTime(t, r) ==
    IF TunUnsettled(r) = {}
    THEN LET settled_indices == Idx(r) \ TunUnsettled(r)
             first_settled_index ==
                 IF settled_indices # {} THEN Min(settled_indices) ELSE 0
         IN  TimeAt(t, first_settled_index)
    ELSE TimeAt(t, Max(TunUnsettled(r)))

TunOscillation(t, r) ==
    LET settling_time == TunSettlingTime(t, r)
    IN  IF settling_time.nan
        THEN Num(0)
        ELSE LET reached == {k \in Idx(t) : At(t, k) >= settling_time.num}
             IN  IF reached = {}
                 THEN NaN
                 ELSE Val(Sum([j \in 1..(Len(r) - Min(reached)) |->
                                 Abs(Nt(r) * At(r, Min(reached) + j - 1) - St(r))]),
                          Nt(r))

calculate_response_metrics(t, r) ==
    IF Len(r) = 0
    THEN EmptyDict
    ELSE (OVERSHOOT :> TunOvershoot(r)) @@
         (RISE :> TunRiseTime(t, r)) @@
         (SETTLING :> TunSettlingTime(t, r)) @@
         (OSCILLATION :> TunOscillation(t, r))

Flat(a, n) == [k \in 1..n |-> a]

\* Output slices of a step window: a flat run before, a free transition of
\* at most MaxMid samples, a flat run after; the flat runs are either absent
\* or as long as the averaging window
OutputSlices ==
    {Flat(a, h) \o mid \o Flat(b, h) :
        a \in OutputLevels, b \in OutputLevels, h \in {0, MEAN_SAMPLES},
        mid \in SeqsUpTo(OutputLevels, MaxMid)}

\* The command slice that accompanies an output slice of n samples
CommandSlice(n) == [k \in 1..n |-> IF 2 * k <= n THEN 0 ELSE 500]

MetricsIdle ==
    /\ m_variant = "idle"
    /\ m_time = <<>>
    /\ m_input = <<>>
    /\ m_output = <<>>
    /\ m_result = EmptyDict
    /\ m_outcome = "none"
    /\ m_pc = "idle"

MetricsInit ==
    /\ \/ /\ m_variant = "system_identification"
          /\ m_output \in OutputSlices
          /\ m_input = CommandSlice(Len(m_output))
       \/ /\ m_variant = "tuning"
          /\ m_output \in SeqsUpTo(ResponseLevels, MaxResp)
          /\ m_input = <<>>
    /\ m_time = EvenTimes(Len(m_output), 500)
    /\ m_result = EmptyDict
    /\ m_outcome = "none"
    /\ m_pc = "call"

CallStepResponseMetrics ==
    /\ m_pc = "call"
    /\ m_variant = "system_identification"
    /\ IF StepResponseMetricsRaises(m_input)
       THEN /\ m_outcome' = "raised"
            /\ UNCHANGED m_result
       ELSE /\ m_outcome' = "returned"
            /\ m_result' = step_response_metrics(m_time, m_input, m_output)
    /\ m_pc' = "done"
    /\ UNCHANGED <<m_variant, m_time, m_input, m_output>>
    /\ UNCHANGED othersMetrics

CallCalculateResponseMetrics ==
    /\ m_pc = "call"
    /\ m_variant = "tuning"
    /\ m_outcome' = "returned"
    /\ m_result' = calculate_response_metrics(m_time, m_output)
    /\ m_pc' = "done"
    /\ UNCHANGED <<m_variant, m_time, m_input, m_output>>
    /\ UNCHANGED othersMetrics

(***************************************************************************)
(* step_response_fixed.find_step_responses, called with threshold_abs,     *)
(* without gyro, smoothing_ms = 0 (rc_smooth = rc.copy()) and              *)
(* resample_dt_ms = None                                                   *)
(***************************************************************************)
FixedTimeSteps == {500, 1000, 2000}
FixedPreMs == {1, 2}
FixedPostMs == {2, 3}
FixedMinMs == {1, 2}
SHORT_MEAN == 3
MIN_WINDOW == 3

\* pd.Series(None) is the empty Series
AsSeries(x) == IF x.none THEN <<>> ELSE x.v

\* Python round(p / q) for p >= 0, q > 0: halves go to the even neighbour
RoundHalfEven(p, q) ==
    LET f == p \div q
        r == p % q
    IN  IF 2 * r < q THEN f
        ELSE IF 2 * r > q THEN f + 1
        ELSE IF f % 2 = 0 THEN f ELSE f + 1

\* dt_s = np.median(np.diff(time_s)), in microseconds; the timestamps of the
\* model are evenly spaced, so every difference is the median
MedianDtUs(t) == t[2] - t[1]

\* max(1, int(round(ms / max(dt_ms, 1e-9))))
MsToCount(ms, t) ==
    LET n == RoundHalfEven(ms * 1000, MedianDtUs(t))
    IN  IF n > 1 THEN n ELSE 1

n_pre == MsToCount(f_params.pre_step_flat_ms, AsSeries(f_time_us))
n_post == MsToCount(f_params.post_step_flat_ms, AsSeries(f_time_us))
min_len == MsToCount(f_params.min_step_duration_ms, AsSeries(f_time_us))
rc_smooth == AsSeries(f_rc_command)
N == Len(rc_smooth)

\* std() <= limit, NaN counting as not stable (Series.std() of one sample)
StdAtMost(seg, limit) ==
    LET n == Len(seg)
    IN  /\ n >= 2
        /\ limit >= 0
        /\ n * SumSq(seg) - Sum(seg) * Sum(seg) <= limit * limit * n * (n - 1)

\* The same after .fillna(0.0): the NaN of a one-sample window becomes 0
StdAtMostFilled(seg, limit) ==
    IF Len(seg) < 2 THEN 0 <= limit ELSE StdAtMost(seg, limit)

\* rolling(window=n, center=False, min_periods=1) at position j: the n samples
\* ending at j, fewer at the start of the series
RollingWindow(s, n, j) == Slice(s, IF j - n + 1 > 0 THEN j - n + 1 ELSE 0, j + 1)

\* abs(mean_post - mean_pre) >= threshold_abs
DeltaLargeEnough(i) ==
    LET pre == Slice(rc_smooth, i - n_pre, i)
        post == Slice(rc_smooth, i, i + n_post)
    IN  Abs(Sum(post) * Len(pre) - Sum(pre) * Len(post))
            >= f_params.threshold_abs * Len(pre) * Len(post)

\* i + min_len < N and seg.std() <= stability_std_thresh
HeldLongEnough(i) ==
    /\ i + min_len < N
    /\ StdAtMost(Slice(rc_smooth, i, i + min_len), f_params.stability_std_thresh)

\* The body of the scan loop: std_pre = roll_std_pre.iloc[i - 1],
\* std_post = roll_std_post.iloc[i + 1], both rolling windows trailing
IsCandidate(i) ==
    /\ StdAtMostFilled(RollingWindow(rc_smooth, n_pre, i - 1),
                       f_params.stability_std_thresh)
    /\ StdAtMostFilled(RollingWindow(rc_smooth, n_post, i + 1),
                       f_params.stability_std_thresh)
    /\ DeltaLargeEnough(i)
    /\ HeldLongEnough(i)

\* Window building: `continue` on a window under 3 samples or a zero delta_u
WindowKept(idx) ==
    LET i0 == IF idx - n_pre > 0 THEN idx - n_pre ELSE 0
        i1 == IF idx + n_post < N THEN idx + n_post ELSE N
        base == Slice(rc_smooth, i0, idx)
        high == Slice(rc_smooth, idx, idx + SHORT_MEAN)
    IN  /\ i1 - i0 >= MIN_WINDOW
        /\ Len(base) > 0
        /\ Sum(high) * Len(base) # Sum(base) * Len(high)

RECURSIVE KeptWindows(_)
KeptWindows(c) ==
    IF Len(c) = 0 THEN <<>>
    ELSE IF WindowKept(Head(c))
         THEN <<Head(c)>> \o KeptWindows(Tail(c))
         ELSE KeptWindows(Tail(c))

FixedParamSets ==
    [threshold_abs : {300},
     min_step_duration_ms : FixedMinMs,
     pre_step_flat_ms : FixedPreMs,
     post_step_flat_ms : FixedPostMs,
     stability_std_thresh : {2}]

FixedIdle ==
    /\ f_rc_command = NoneSeries
    /\ f_time_us = NoneSeries
    /\ f_params = [threshold_abs |-> 0, min_step_duration_ms |-> 0,
                   pre_step_flat_ms |-> 0, post_step_flat_ms |-> 0,
                   stability_std_thresh |-> 0]
    /\ f_pc = "idle"
    /\ f_i = 0
    /\ candidates = <<>>
    /\ f_windows = <<>>
    /\ f_outcome = "none"

FixedInit ==
    /\ \/ /\ f_rc_command = NoneSeries
          /\ f_time_us \in {NoneSeries, SeriesOf(EvenTimes(2, 500))}
       \/ /\ f_rc_command \in {SeriesOf(s) : s \in SeqsUpTo(Levels, 2)}
          /\ f_time_us = NoneSeries
       \/ /\ f_rc_command \in {SeriesOf(s) : s \in SeqsUpTo(Levels, MaxLen)}
          /\ f_time_us \in
                {SeriesOf(EvenTimes(Len(f_rc_command.v), dt)) : dt \in FixedTimeSteps}
    /\ f_params \in FixedParamSets
    /\ f_pc = "start"
    /\ f_i = 0
    /\ candidates = <<>>
    /\ f_windows = <<>>
    /\ f_outcome = "none"

\* Lines 92-94: raise ValueError("time_us too short or invalid")
FixedRaise ==
    /\ f_pc = "start"
    /\ Len(AsSeries(f_time_us)) < 2
    /\ f_pc' = "done"
    /\ f_outcome' = "raised"
    /\ UNCHANGED <<f_rc_command, f_time_us, f_params, f_i, candidates, f_windows>>
    /\ UNCHANGED othersFixed

\* Lines 96-125: window lengths and the start of `for i in range(n_pre, N - n_post - 1)`
FixedStartScan ==
    /\ f_pc = "start"
    /\ Len(AsSeries(f_time_us)) >= 2
    /\ f_pc' = "scan"
    /\ f_i' = n_pre
    /\ UNCHANGED <<f_rc_command, f_time_us, f_params, candidates, f_windows,
                   f_outcome>>
    /\ UNCHANGED othersFixed

\* One iteration of the candidate scan
FixedScan ==
    /\ f_pc = "scan"
    /\ f_i < N - n_post - 1
    /\ candidates' = IF IsCandidate(f_i) THEN Append(candidates, f_i) ELSE candidates
    /\ f_i' = f_i + 1
    /\ UNCHANGED <<f_rc_command, f_time_us, f_params, f_pc, f_windows, f_outcome>>
    /\ UNCHANGED othersFixed

\* Lines 151-246: the windows are built and the result is returned
FixedReturn ==
    /\ f_pc = "scan"
    /\ f_i >= N - n_post - 1
    /\ f_windows' = KeptWindows(candidates)
    /\ f_outcome' = "returned"
    /\ f_pc' = "done"
    /\ UNCHANGED <<f_rc_command, f_time_us, f_params, f_i, candidates>>
    /\ UNCHANGED othersFixed

(***************************************************************************)
(* tuning._calculate_fitness                                               *)
(***************************************************************************)
\* float('inf')
PlusInf == [nan |-> FALSE, num |-> 1, den |-> 0]

\* A key left out of a dict
Absent == [absent |-> TRUE]

\* The dict holding the entries of f that are not Absent
DictOf(f) == [k \in {x \in DOMAIN f : f[x] # Absent} |-> f[k]]

\* d.get(k, default)
Get(d, k, default) == IF k \in DOMAIN d THEN d[k] ELSE default

W_OVERSHOOT == "overshoot"
W_SETTLING == "settling"
W_RISE == "rise_time"
W_OSCILLATION == "oscillation"

\* metric * weight and a + b on floats: NaN is absorbing
Times(a, w) == IF a.nan THEN NaN ELSE Val(a.num * w, a.den)
Plus(a, b) ==
    IF a.nan \/ b.nan THEN NaN
    ELSE Val(a.num * b.den + b.num * a.den, a.den * b.den)

\* metrics.get("Overshoot (%)", 100) > 100; a comparison with NaN is False
Above100(a) == ~a.nan /\ a.num > 100 * a.den

\* The weighted sum of lines 202-207
FitnessScore(metrics, weights) ==
    Plus(Plus(Times(Get(metrics, OVERSHOOT, Num(50)),
                    Get(weights, W_OVERSHOOT, 1)),
              Times(Get(metrics, SETTLING, Num(1)),
                    100 * Get(weights, W_SETTLING, 1))),
         Plus(Times(Get(metrics, RISE, Num(1)),
                    100 * Get(weights, W_RISE, 1)),
              Times(Get(metrics, OSCILLATION, Num(100)),
                    Get(weights, W_OSCILLATION, 1))))

\* (mutation of _calculate_fitness: the np.isnan test on the settling time left out)
FitnessWithoutNanTest(metrics, weights) ==
    IF DOMAIN metrics = {}
    THEN PlusInf
    ELSE IF Above100(Get(metrics, OVERSHOOT, Num(100)))
         THEN PlusInf
         ELSE FitnessScore(metrics, weights)

_calculate_fitness(metrics, weights) ==
    IF DOMAIN metrics = {}
    THEN PlusInf
    ELSE IF \/ Get(metrics, SETTLING, Num(0)).nan
            \/ Above100(Get(metrics, OVERSHOOT, Num(100)))
         THEN PlusInf
         ELSE FitnessScore(metrics, weights)

\* Metrics dicts: every field absent, NaN or a number
OvershootValues == {Absent, NaN, Num(-5), Num(100), Num(101)}
SettlingValues == {Absent, NaN, Num(0), Num(1)}
RiseValues == {Absent, NaN, Num(1)}
OscillationValues == {Absent, NaN, Num(3)}

MetricsDicts ==
    {DictOf((OVERSHOOT :> o) @@ (SETTLING :> st) @@ (RISE :> r) @@ (OSCILLATION :> c)) :
        o \in OvershootValues, st \in SettlingValues,
        r \in RiseValues, c \in OscillationValues}

\* Weights: every key missing, negative, zero or positive
WeightKeys == {W_OVERSHOOT, W_SETTLING, W_RISE, W_OSCILLATION}
WeightValues == {-1, 0, 2}

WeightDicts == UNION {[K -> WeightValues] : K \in SUBSET WeightKeys}

FitnessIdle ==
    /\ fit_metrics = EmptyDict
    /\ fit_weights = EmptyDict
    /\ fit_result = NaN
    /\ fit_pc = "idle"

FitnessInit ==
    /\ fit_metrics \in MetricsDicts
    /\ fit_weights \in WeightDicts
    /\ fit_result = NaN
    /\ fit_pc = "call"

CallCalculateFitness ==
    /\ fit_pc = "call"
    /\ fit_result' = _calculate_fitness(fit_metrics, fit_weights)
    /\ fit_pc' = "done"
    /\ UNCHANGED <<fit_metrics, fit_weights>>
    /\ UNCHANGED othersFitness

(***************************************************************************)
(* tuning.validate_settings                                                *)
(*                                                                         *)
(* A GainSet is a dict from keys to values; a value is an int (IntVal) or  *)
(* a string (StrVal), as parse_dump leaves a value that is not a number.   *)
(* The returned list is kept as the set of its entries, one <<check, key>> *)
(* per warning.                                                            *)
(***************************************************************************)
IntVal(n) == [numeric |-> TRUE, v |-> n]
StrVal == [numeric |-> FALSE, v |-> 0]

P_ROLL == "p_roll"
D_ROLL == "d_roll"
F_ROLL == "f_roll"
GYRO_LPF1_TYPE == "gyro_lpf1_type"

GainKeys == {P_ROLL, D_ROLL, F_ROLL, GYRO_LPF1_TYPE}

Axes == {"roll", "pitch", "yaw"}
Terms == {"p", "i", "d", "f"}

\* f'{term}_{axis}'
KeyOf(term, axis) ==
    CASE term = "p" /\ axis = "roll" -> "p_roll"
      [] term = "i" /\ axis = "roll" -> "i_roll"
      [] term = "d" /\ axis = "roll" -> "d_roll"
      [] term = "f" /\ axis = "roll" -> "f_roll"
      [] term = "p" /\ axis = "pitch" -> "p_pitch"
      [] term = "i" /\ axis = "pitch" -> "i_pitch"
      [] term = "d" /\ axis = "pitch" -> "d_pitch"
      [] term = "f" /\ axis = "pitch" -> "f_pitch"
      [] term = "p" /\ axis = "yaw" -> "p_yaw"
      [] term = "i" /\ axis = "yaw" -> "i_yaw"
      [] term = "d" /\ axis = "yaw" -> "d_yaw"
      [] term = "f" /\ axis = "yaw" -> "f_yaw"

AxisKeys == {KeyOf(term, axis) : term \in Terms, axis \in Axes}

TermOf(key) == CHOOSE term \in Terms : \E axis \in Axes : KeyOf(term, axis) = key

\* key.startswith(('p_', 'i_', 'd_')), over the keys of the model
StartsWithPID(key) == key \in AxisKeys /\ TermOf(key) \in {"p", "i", "d"}

RELATIVE == "relative"
ABSOLUTE == "absolute"

\* The condition of line 155 raises TypeError when `original_pids[key] > 0`
\* compares a string with 0 (it is evaluated before the startswith test), and
\* line 156 does when a string is divided
RelativeCheckRaises(proposed, original) ==
    \E key \in DOMAIN proposed \cap DOMAIN original :
        \/ ~original[key].numeric
        \/ /\ original[key].v > 0
           /\ StartsWithPID(key)
           /\ ~proposed[key].numeric

\* not (0.5 <= ratio <= 1.7) for ratio = p / o with o > 0
RatioOutOfRange(pv, ov) == 2 * pv < ov \/ 10 * pv > 17 * ov

\* Lines 154-161
RelativeWarnings(proposed, original) ==
    {<<RELATIVE, key>> : key \in
        {k \in DOMAIN proposed \cap DOMAIN original :
            /\ original[k].v > 0
            /\ StartsWithPID(k)
            /\ RatioOutOfRange(proposed[k].v, original[k].v)}}

\* (mutation of OutsideRange: the bounds taken as exclusive)
OutsideRangeExclusive(value, range) == ~(range[1] < value /\ value < range[2])

\* not min_val <= value <= max_val
OutsideRange(value, range) == ~(range[1] <= value /\ value <= range[2])

\* Lines 164-173
AbsoluteWarnings(proposed, safe_ranges) ==
    {<<ABSOLUTE, key>> : key \in
        {k \in DOMAIN safe_ranges \cap DOMAIN proposed :
            /\ proposed[k].numeric
            /\ OutsideRange(proposed[k].v, safe_ranges[k])}}

validate_settings(proposed, original, safe_ranges) ==
    RelativeWarnings(proposed, original) \cup AbsoluteWarnings(proposed, safe_ranges)

\* Candidate and original GainSets
ProposedValues ==
    [p_roll : {Absent, IntVal(0), IntVal(4), IntVal(5), IntVal(10), IntVal(17), IntVal(18)},
     d_roll : {Absent, IntVal(5), IntVal(10), IntVal(50), IntVal(100), IntVal(101)},
     f_roll : {Absent, IntVal(30)},
     gyro_lpf1_type : {Absent, StrVal}]

OriginalValues ==
    [p_roll : {Absent, IntVal(0), IntVal(10)},
     d_roll : {Absent, IntVal(0), IntVal(10)},
     f_roll : {Absent, IntVal(10)},
     gyro_lpf1_type : {Absent, StrVal}]

GainSetOf(r) ==
    DictOf((P_ROLL :> r.p_roll) @@ (D_ROLL :> r.d_roll) @@ (F_ROLL :> r.f_roll) @@
           (GYRO_LPF1_TYPE :> r.gyro_lpf1_type))

\* safe_ranges of a profile: none, the d_roll range of the Default profile's
\* kind, or ranges for more keys
SafeRangeSets ==
    { EmptyDict,
      (D_ROLL :> <<10, 100>>),
      (D_ROLL :> <<10, 100>>) @@ (P_ROLL :> <<5, 17>>) @@ (GYRO_LPF1_TYPE :> <<0, 1>>) }

ValidateIdle ==
    /\ v_proposed = EmptyDict
    /\ v_original = EmptyDict
    /\ v_safe_ranges = EmptyDict
    /\ v_warnings = {}
    /\ v_outcome = "none"
    /\ v_pc = "idle"

ValidateInit ==
    /\ v_proposed \in {GainSetOf(r) : r \in ProposedValues}
    /\ v_original \in {GainSetOf(r) : r \in OriginalValues}
    /\ v_safe_ranges \in SafeRangeSets
    /\ v_warnings = {}
    /\ v_outcome = "none"
    /\ v_pc = "call"

CallValidateSettings ==
    /\ v_pc = "call"
    /\ IF RelativeCheckRaises(v_proposed, v_original)
       THEN /\ v_outcome' = "raised"
            /\ UNCHANGED v_warnings
       ELSE /\ v_outcome' = "returned"
            /\ v_warnings' = validate_settings(v_proposed, v_original, v_safe_ranges)
    /\ v_pc' = "done"
    /\ UNCHANGED <<v_proposed, v_original, v_safe_ranges>>
    /\ UNCHANGED othersValidate

(***************************************************************************)
(* The calls of validate_settings inside the tuning loops                  *)
(***************************************************************************)
\* def validate_settings(proposed_pids, original_pids, drone_profile): three
\* required positional parameters
VALIDATE_PARAMETERS == 3
\* find_optimal_tune: validate_settings(candidate_pids, drone_profile)
OPTIMIZER_CALL_ARGUMENTS == 2
\* tune_with_sliders: validate_settings(current_pids, drone_profile)
SLIDERS_CALL_ARGUMENTS == 2

\* A call that does not supply every required parameter raises TypeError
\* before the body of the function runs
CallRaisesTypeError(arguments) == arguments # VALIDATE_PARAMETERS

(***************************************************************************)
(* The simulated response of a GainSet: simulate_step_response adds        *)
(* Gaussian noise to every sample (noise_level = 0.05), so the metrics of  *)
(* a simulation are any of the dicts calculate_response_metrics returns    *)
(* for a non-empty response                                                *)
(***************************************************************************)
SimulatedMetrics ==
    {(OVERSHOOT :> o) @@ (SETTLING :> st) @@ (RISE :> r) @@ (OSCILLATION :> c) :
        o \in {Num(3), Num(101)}, st \in {Num(0), Num(1)},
        r \in {NaN, Num(1)}, c \in {Num(3)}}

\* drone_profile["fitness_weights"] of the Default profile, in halves
DefaultWeights ==
    (W_OVERSHOOT :> 4) @@ (W_SETTLING :> 2) @@ (W_RISE :> 1) @@ (W_OSCILLATION :> 3)

(***************************************************************************)
(* tuning._compute_pids_from_sliders; sliders are kept in hundredths       *)
(***************************************************************************)
M_MASTER == "master"
M_TRACKING == "tracking"
M_DRIFT == "drift"
M_DAMP == "damp"
M_FF == "ff"

SliderKeys == {M_MASTER, M_TRACKING, M_DRIFT, M_DAMP, M_FF}

\* sliders = {"master": 1.0, "tracking": 1.0, "drift": 1.0, "damp": 1.0, "ff": 1.0}
ONE == 100
InitialSliders == [k \in SliderKeys |-> ONE]

\* The product of multipliers applied to a term, as numerator and denominator
Multiplier(term, sl) ==
    CASE term = "p" -> <<sl[M_MASTER] * sl[M_TRACKING], ONE * ONE>>
      [] term = "i" -> <<sl[M_MASTER] * sl[M_TRACKING] * sl[M_DRIFT], ONE * ONE * ONE>>
      [] term = "d" -> <<sl[M_MASTER] * sl[M_DAMP], ONE * ONE>>
      [] term = "f" -> <<sl[M_MASTER] * sl[M_FF], ONE * ONE>>

\* A multiplication by a string value raises TypeError
ComputePidsRaises(base_pids) ==
    \E key \in AxisKeys \cap DOMAIN base_pids : ~base_pids[key].numeric

\* pids = base_pids.copy(), then every p/i/d/f key of every axis is set to
\* int(multipliers * base_pids.get(key, 0))
_compute_pids_from_sliders(base_pids, sl) ==
    [key \in DOMAIN base_pids \cup AxisKeys |->
        IF key \in AxisKeys
        THEN LET mult == Multiplier(TermOf(key), sl)
                 base == IF key \in DOMAIN base_pids THEN base_pids[key].v ELSE 0
             IN  IntVal(Trunc(mult[1] * base, mult[2]))
        ELSE base_pids[key]]

(***************************************************************************)
(* tuning.find_optimal_tune                                                *)
(***************************************************************************)
MaxIterations == 2

\* params_to_tweak
ParamsToTweak(mode) ==
    IF mode = "RPY"
    THEN {"p_roll", "d_roll", "p_pitch", "d_pitch", "p_yaw", "d_yaw"}
    ELSE {"p_roll", "d_roll", "p_pitch", "d_pitch"}

\* np.random.randint(-3, 4)
Adjustments == -3..3

\* DRONE_PROFILES["Default"]["safe_ranges"]
DefaultSafeRanges ==
    [key \in {KeyOf(term, axis) : term \in {"p", "i", "d"}, axis \in Axes} |->
        IF TermOf(key) \in {"p", "i"} THEN <<20, 150>>
        ELSE IF key = "d_yaw" THEN <<0, 50>> ELSE <<10, 100>>]

\* GainSets with numeric gains; a filter type is a string
FullGainSet ==
    [key \in AxisKeys |-> IntVal(45)] @@ (GYRO_LPF1_TYPE :> StrVal)
RollOnlyGainSet ==
    (P_ROLL :> IntVal(45)) @@ (D_ROLL :> IntVal(30)) @@ (GYRO_LPF1_TYPE :> StrVal)
OutOfRangeGainSet ==
    [key \in AxisKeys |-> IntVal(200)]

TuningGainSets == {FullGainSet, RollOnlyGainSet, OutOfRangeGainSet, EmptyDict}

\* (mutation of CopyOf: the copy keeps only the gains of the axes)
CopyOfAxisKeysOnly(pids) == [key \in DOMAIN pids \cap AxisKeys |-> pids[key]]

\* initial_pids.copy()
CopyOf(pids) == pids

OptimizerIdle ==
    /\ o_initial_pids = EmptyDict
    /\ o_mode = "idle"
    /\ o_iterations = 0
    /\ o_pc = "idle"
    /\ o_count = 0
    /\ best_pids = EmptyDict
    /\ best_fitness = NaN
    /\ o_result = EmptyDict
    /\ o_outcome = "none"

OptimizerInit ==
    /\ o_initial_pids \in TuningGainSets
    /\ o_mode \in {"RP", "RPY"}
    /\ o_iterations \in 0..MaxIterations
    /\ o_pc = "start"
    /\ o_count = 0
    /\ best_pids = EmptyDict
    /\ best_fitness = NaN
    /\ o_result = EmptyDict
    /\ o_outcome = "none"

\* Lines 289-307: the copy, the baseline simulation and its fitness.  The
\* simulation of a GainSet with numeric gains always returns its dict.
OptimizerBaseline ==
    /\ o_pc = "start"
    /\ best_pids' = CopyOf(o_initial_pids)
    /\ \E metrics \in SimulatedMetrics :
           best_fitness' = _calculate_fitness(metrics, DefaultWeights)
    /\ o_pc' = "loop"
    /\ UNCHANGED <<o_initial_pids, o_mode, o_iterations, o_count, o_result,
                   o_outcome>>
    /\ UNCHANGED othersOptimizer

\* Lines 309-318, one iteration: the candidate is built (KeyError when the
\* chosen key is not in the GainSet), then validate_settings is called with two
\* arguments for three parameters, which raises TypeError; nothing catches
\* either, so the call of find_optimal_tune ends here
OptimizerIterate ==
    /\ o_pc = "loop"
    /\ o_count < o_iterations
    /\ \E param_to_tweak \in ParamsToTweak(o_mode), adjustment \in Adjustments :
           \/ param_to_tweak \notin DOMAIN best_pids
           \/ CallRaisesTypeError(OPTIMIZER_CALL_ARGUMENTS)
    /\ o_count' = o_count + 1
    /\ o_outcome' = "raised"
    /\ o_pc' = "done"
    /\ UNCHANGED <<o_initial_pids, o_mode, o_iterations, best_pids, best_fitness,
                   o_result>>
    /\ UNCHANGED othersOptimizer

\* Line 335: return best_pids
OptimizerReturn ==
    /\ o_pc = "loop"
    /\ o_count >= o_iterations
    /\ o_result' = best_pids
    /\ o_outcome' = "returned"
    /\ o_pc' = "done"
    /\ UNCHANGED <<o_initial_pids, o_mode, o_iterations, o_count, best_pids,
                   best_fitness>>
    /\ UNCHANGED othersOptimizer

(***************************************************************************)
(* tuning.tune_with_sliders                                                *)
(***************************************************************************)
SlidersIdle ==
    /\ s_base_pids = EmptyDict
    /\ s_iterations = 0
    /\ s_pc = "idle"
    /\ s_count = 0
    /\ sliders = InitialSliders
    /\ s_result = EmptyDict
    /\ s_outcome = "none"

\* Line 232: every multiplier starts at 1.0
SlidersInit ==
    /\ s_base_pids \in TuningGainSets
    /\ s_iterations \in 0..MaxIterations
    /\ s_pc = "loop"
    /\ s_count = 0
    /\ sliders = InitialSliders
    /\ s_result = EmptyDict
    /\ s_outcome = "none"

\* Lines 243-247, one iteration: the GainSet of the multipliers is computed,
\* then validate_settings is called with two arguments for three parameters,
\* which raises TypeError; nothing catches it, so the call of
\* tune_with_sliders ends here
SlidersIterate ==
    /\ s_pc = "loop"
    /\ s_count < s_iterations
    /\ \/ ComputePidsRaises(s_base_pids)
       \/ CallRaisesTypeError(SLIDERS_CALL_ARGUMENTS)
    /\ s_count' = s_count + 1
    /\ s_outcome' = "raised"
    /\ s_pc' = "done"
    /\ UNCHANGED <<s_base_pids, s_iterations, sliders, s_result>>
    /\ UNCHANGED othersSliders

\* Lines 280-281: final_pids = _compute_pids_from_sliders(base_pids, sliders)
SlidersReturn ==
    /\ s_pc = "loop"
    /\ s_count >= s_iterations
    /\ IF ComputePidsRaises(s_base_pids)
       THEN /\ s_outcome' = "raised"
            /\ UNCHANGED s_result
       ELSE /\ s_outcome' = "returned"
            /\ s_result' = _compute_pids_from_sliders(s_base_pids, sliders)
    /\ s_pc' = "done"
    /\ UNCHANGED <<s_base_pids, s_iterations, s_count, sliders>>
    /\ UNCHANGED othersSliders

(***************************************************************************)
(* The slider adjustment of one iteration of tune_with_sliders (lines      *)
(* 257-278), a function of the sliders and of the measured metrics.        *)
(* Multipliers are in hundredths.                                          *)
(***************************************************************************)
\* STEP = 0.02, STEP * 0.5 = 0.01, the clamp range [0.5, 2.0]
STEP == 2
HALF_STEP == 1
CLIP_MIN == 50
CLIP_MAX == 200
\* target_metrics = {"Overshoot (%)": 5, "Rise Time (s)": 0.05}: the
\* overshoot target in percent, the rise-time target in milliseconds
TARGET_OVERSHOOT == 5
TARGET_RISE_MS == 50

\* x > target * 1.2 and x < target * 0.8 for a float x = num/den and an integer
\* target; a comparison with NaN is False
AboveTarget(x, target, unit) == ~x.nan /\ 10 * x.num * unit > 12 * target * x.den
BelowTarget(x, target, unit) == ~x.nan /\ 10 * x.num * unit < 8 * target * x.den

\* (mutation of Clip: no clamp)
ClipNothing(x) == x

\* np.clip(x, 0.5, 2.0)
Clip(x) == IF x < CLIP_MIN THEN CLIP_MIN ELSE IF x > CLIP_MAX THEN CLIP_MAX ELSE x

\* (mutation of Adjusted: damp nudged down, not up, on a high overshoot)
AdjustedDampDown(sl, overshoot, rise_time) ==
    [k \in SliderKeys |->
        CASE k = M_DAMP ->
                 IF AboveTarget(overshoot, TARGET_OVERSHOOT, 1) THEN sl[k] - STEP
                 ELSE IF BelowTarget(overshoot, TARGET_OVERSHOOT, 1) THEN sl[k] - STEP
                 ELSE sl[k]
          [] k = M_TRACKING ->
                 IF AboveTarget(overshoot, TARGET_OVERSHOOT, 1) THEN sl[k] - HALF_STEP
                 ELSE sl[k]
          [] k = M_MASTER ->
                 IF AboveTarget(rise_time, TARGET_RISE_MS, 1000) THEN sl[k] + STEP
                 ELSE IF BelowTarget(rise_time, TARGET_RISE_MS, 1000)
                      THEN sl[k] - HALF_STEP
                      ELSE sl[k]
          [] OTHER -> sl[k]]

\* Lines 265-274
Adjusted(sl, overshoot, rise_time) ==
    [k \in SliderKeys |->
        CASE k = M_DAMP ->
                 IF AboveTarget(overshoot, TARGET_OVERSHOOT, 1) THEN sl[k] + STEP
                 ELSE IF BelowTarget(overshoot, TARGET_OVERSHOOT, 1) THEN sl[k] - STEP
                 ELSE sl[k]
          [] k = M_TRACKING ->
                 IF AboveTarget(overshoot, TARGET_OVERSHOOT, 1) THEN sl[k] - HALF_STEP
                 ELSE sl[k]
          [] k = M_MASTER ->
                 IF AboveTarget(rise_time, TARGET_RISE_MS, 1000) THEN sl[k] + STEP
                 ELSE IF BelowTarget(rise_time, TARGET_RISE_MS, 1000)
                      THEN sl[k] - HALF_STEP
                      ELSE sl[k]
          [] OTHER -> sl[k]]

\* Line 257: `continue` on an empty metrics dict or a NaN overshoot
AdjustmentSkipped(metrics) ==
    DOMAIN metrics = {} \/ Get(metrics, OVERSHOOT, Num(0)).nan

\* Lines 257-278
AdjustSliders(sl, metrics) ==
    IF AdjustmentSkipped(metrics)
    THEN sl
    ELSE LET adjusted == Adjusted(sl, Get(metrics, OVERSHOOT, Num(0)),
                                  Get(metrics, RISE, Num(1)))
         IN  [k \in SliderKeys |-> Clip(adjusted[k])]

\* Multipliers the steps of the adjustment lead to from 1.0: damp moves by
\* 0.02, tracking only down by 0.01, master by 0.02 up and 0.01 down; drift
\* and ff are never adjusted
SliderStates ==
    {(M_MASTER :> m) @@ (M_TRACKING :> t) @@ (M_DRIFT :> ONE) @@ (M_DAMP :> d) @@
     (M_FF :> ONE) :
        m \in {50, 51, 100, 199, 200}, t \in {50, 51, 100}, d \in {50, 52, 100, 198, 200}}

\* The measured metrics: overshoot in percent, rise time in seconds
MeasuredMetrics ==
    {DictOf((OVERSHOOT :> o) @@ (RISE :> r)) :
        o \in {Absent, NaN, Num(3), Num(4), Num(6), Num(7)},
        r \in {Absent, NaN, Val(30, 1000), Val(40, 1000), Val(60, 1000), Val(70, 1000)}}

AdjustIdle ==
    /\ a_sliders = InitialSliders
    /\ a_metrics = EmptyDict
    /\ a_result = InitialSliders
    /\ a_pc = "idle"

AdjustInit ==
    /\ a_sliders \in SliderStates
    /\ a_metrics \in MeasuredMetrics
    /\ a_result = a_sliders
    /\ a_pc = "call"

CallAdjustSliders ==
    /\ a_pc = "call"
    /\ a_result' = AdjustSliders(a_sliders, a_metrics)
    /\ a_pc' = "done"
    /\ UNCHANGED <<a_sliders, a_metrics>>
    /\ UNCHANGED othersAdjust

(***************************************************************************)
(* tuning.simulate_step_response: the gains it reads from the GainSet and  *)
(* the iterations of its loop in which it adds the disturbance.  The time  *)
(* grid is t = np.linspace(0, duration, time_steps), the step is           *)
(* dt = duration / time_steps.                                             *)
(***************************************************************************)
MaxSteps == 5

\* pids.get(f'{term}_{axis}', 0)
GainOf(pids, term, axis) ==
    IF KeyOf(term, axis) \in DOMAIN pids THEN pids[KeyOf(term, axis)] ELSE IntVal(0)

\* Lines 382-387: a string value multiplied by a float raises TypeError, which
\* the except clause turns into `return None, None, None`
ReadGainsRaises(pids, axis) ==
    \E term \in {"p", "i", "d"} : ~GainOf(pids, term, axis).numeric

\* t[i] of np.linspace(0, duration, time_steps), as <<numerator, denominator>>:
\* i * duration / (time_steps - 1), and the single point 0 for time_steps = 1
LinspaceAt(i, duration, time_steps) ==
    IF time_steps = 1 THEN <<0, 1>> ELSE <<i * duration, time_steps - 1>>

\* Lines 443-444: disturbance_magnitude > 0 and disturbance_time > 0 and
\* disturbance_time <= t[i] < disturbance_time + dt
DisturbanceApplied(i, duration, time_steps, magnitude, disturbance_time) ==
    LET t == LinspaceAt(i, duration, time_steps)
        n == disturbance_time.num
        d == disturbance_time.den
    IN  /\ magnitude > 0
        /\ n > 0
        /\ n * t[2] <= t[1] * d
        /\ t[1] * d * time_steps < n * time_steps * t[2] + duration * d * t[2]

\* bool(sim_results) as the callers test it: a dict with five keys and a tuple
\* of three None are both true
Truthy(result) == result \in {"dict", "tuple_of_none"}

\* A GainSet whose roll P gain is a string
StringGainSet == (P_ROLL :> StrVal) @@ (D_ROLL :> IntVal(30))

SimulatedGainSets == {FullGainSet, RollOnlyGainSet, StringGainSet, EmptyDict}

\* disturbance_time in quarters of a second, duration in seconds
DisturbanceTimes == {Val(a, 4) : a \in 0..8}

SimulateIdle ==
    /\ sim_pids = EmptyDict
    /\ sim_axis = "roll"
    /\ sim_time_steps = 1
    /\ sim_duration = 1
    /\ sim_magnitude = 0
    /\ sim_disturbance_time = Num(0)
    /\ sim_gains = <<0, 0, 0>>
    /\ sim_i = 0
    /\ sim_applied = 0
    /\ sim_result = "none"
    /\ sim_pc = "idle"

SimulateInit ==
    /\ sim_pids \in SimulatedGainSets
    /\ sim_axis \in {"roll", "yaw"}
    /\ sim_time_steps \in 1..MaxSteps
    /\ sim_duration \in {1, 2}
    /\ sim_magnitude \in {0, 20}
    /\ sim_disturbance_time \in DisturbanceTimes
    /\ sim_gains = <<0, 0, 0>>
    /\ sim_i = 0
    /\ sim_applied = 0
    /\ sim_result = "none"
    /\ sim_pc = "start"

\* Lines 382-417: the gains are read with a default of 0 for a missing key
SimulateEnter ==
    /\ sim_pc = "start"
    /\ IF ReadGainsRaises(sim_pids, sim_axis)
       THEN /\ sim_result' = "tuple_of_none"
            /\ sim_pc' = "done"
            /\ UNCHANGED sim_gains
       ELSE /\ sim_gains' = <<GainOf(sim_pids, "p", sim_axis).v,
                              GainOf(sim_pids, "i", sim_axis).v,
                              GainOf(sim_pids, "d", sim_axis).v>>
            /\ sim_pc' = "loop"
            /\ UNCHANGED sim_result
    /\ UNCHANGED <<sim_pids, sim_axis, sim_time_steps, sim_duration, sim_magnitude,
                   sim_disturbance_time, sim_i, sim_applied>>
    /\ UNCHANGED othersSimulate

\* Lines 419-457, one iteration of `for i in range(time_steps)`
SimulateIterate ==
    /\ sim_pc = "loop"
    /\ sim_i < sim_time_steps
    /\ sim_applied' =
           IF DisturbanceApplied(sim_i, sim_duration, sim_time_steps, sim_magnitude,
                                 sim_disturbance_time)
           THEN sim_applied + 1
           ELSE sim_applied
    /\ sim_i' = sim_i + 1
    /\ UNCHANGED <<sim_pids, sim_axis, sim_time_steps, sim_duration, sim_magnitude,
                   sim_disturbance_time, sim_gains, sim_result, sim_pc>>
    /\ UNCHANGED othersSimulate

\* Lines 460-463: the dict of the traces
SimulateReturn ==
    /\ sim_pc = "loop"
    /\ sim_i >= sim_time_steps
    /\ sim_result' = "dict"
    /\ sim_pc' = "done"
    /\ UNCHANGED <<sim_pids, sim_axis, sim_time_steps, sim_duration, sim_magnitude,
                   sim_disturbance_time, sim_gains, sim_i, sim_applied>>
    /\ UNCHANGED othersSimulate

(***************************************************************************)
(* tuning.generate_cli: the returned text as the sequence of its lines     *)
(* (every piece the function appends ends with a newline)                  *)
(***************************************************************************)
\* f"{value}": the decimal digits of an int, the characters of a string
Format(value) == IF value.numeric THEN <<"int", value.v>> ELSE <<"str", 0>>

NoText == <<"", 0>>

\* "# Paste the following commands into the Betaflight CLI:"
CommentLine == [kind |-> "comment", key |-> "", text |-> NoText]
\* The empty line a leading "\n" produces
BlankLine == [kind |-> "blank", key |-> "", text |-> NoText]
\* f"set {key} = {value}"
SetLine(key, value) == [kind |-> "set", key |-> key, text |-> Format(value)]
\* "save"
SaveLine == [kind |-> "save", key |-> "", text |-> NoText]

\* if key in pids: cli_commands += f"set {key} = {pids[key]}\n"
SetLineIfPresent(pids, key) ==
    IF key \in DOMAIN pids THEN <<SetLine(key, pids[key])>> ELSE <<>>

\* (mutation of generate_cli: the save command is not appended)
GenerateCliWithoutSave(pids) ==
    <<CommentLine>>
        \o SetLineIfPresent(pids, "p_roll") \o SetLineIfPresent(pids, "i_roll")
        \o SetLineIfPresent(pids, "d_roll") \o SetLineIfPresent(pids, "f_roll")
        \o (IF "p_pitch" \in DOMAIN pids THEN <<BlankLine>> ELSE <<>>)
        \o SetLineIfPresent(pids, "p_pitch") \o SetLineIfPresent(pids, "i_pitch")
        \o SetLineIfPresent(pids, "d_pitch") \o SetLineIfPresent(pids, "f_pitch")

\* Lines 342-356: the comment, the roll gains, the pitch gains (an empty line
\* before p_pitch), an empty line and save; no yaw gain is written
generate_cli(pids) ==
    <<CommentLine>>
        \o SetLineIfPresent(pids, "p_roll") \o SetLineIfPresent(pids, "i_roll")
        \o SetLineIfPresent(pids, "d_roll") \o SetLineIfPresent(pids, "f_roll")
        \o (IF "p_pitch" \in DOMAIN pids THEN <<BlankLine>> ELSE <<>>)
        \o SetLineIfPresent(pids, "p_pitch") \o SetLineIfPresent(pids, "i_pitch")
        \o SetLineIfPresent(pids, "d_pitch") \o SetLineIfPresent(pids, "f_pitch")
        \o <<BlankLine, SaveLine>>

\* GainSets for generate_cli: every subset of these keys, each with a value of
\* its own; a filter type is a string
CliKeys ==
    {"p_roll", "i_roll", "d_roll", "f_roll", "p_pitch", "d_pitch", "p_yaw",
     GYRO_LPF1_TYPE}

CliValue(key) ==
    CASE key = "p_roll" -> IntVal(45)
      [] key = "i_roll" -> IntVal(80)
      [] key = "d_roll" -> IntVal(30)
      [] key = "f_roll" -> IntVal(120)
      [] key = "p_pitch" -> IntVal(47)
      [] key = "d_pitch" -> IntVal(34)
      [] key = "p_yaw" -> IntVal(46)
      [] OTHER -> StrVal

CliGainSets == {[key \in K |-> CliValue(key)] : K \in SUBSET CliKeys}

CliIdle ==
    /\ cli_pids = EmptyDict
    /\ cli_lines = <<>>
    /\ cli_pc = "idle"

CliInit ==
    /\ cli_pids \in CliGainSets
    /\ cli_lines = <<>>
    /\ cli_pc = "call"

CallGenerateCli ==
    /\ cli_pc = "call"
    /\ cli_lines' = generate_cli(cli_pids)
    /\ cli_pc' = "done"
    /\ UNCHANGED cli_pids
    /\ UNCHANGED othersCli

(***************************************************************************)
(* tuning.parse_dump: the settings it returns for the lines of a dump.     *)
(* A line is one of: `profile <id>` (select), `# profile <id>` (header),   *)
(* any other comment or an empty line (comment), `set <key> = <token>`.    *)
(***************************************************************************)
MaxDumpLines == 4

SelectLine(id) == [kind |-> "select", id |-> id, key |-> "", token |-> ""]
HeaderLine(id) == [kind |-> "header", id |-> id, key |-> "", token |-> ""]
OtherCommentLine == [kind |-> "comment", id |-> 0, key |-> "", token |-> ""]
DumpSetLine(key, token) == [kind |-> "set", id |-> 0, key |-> key, token |-> token]

\* The keys of TARGET_KEYS the model uses
TARGET_KEYS == AxisKeys \cup {GYRO_LPF1_TYPE}

\* Lines 76-82: int(value) for digits; a token int() rejects is left a string
ParseValue(token) ==
    CASE token = "30" -> IntVal(30)
      [] token = "45" -> IntVal(45)
      [] token = "99" -> IntVal(99)
      [] OTHER -> StrVal

\* Lines 42-49: the id of the last `profile <id>` line, 0 when there is none
ActiveProfileId(lines) ==
    LET selects == {i \in 1..Len(lines) : lines[i].kind = "select"}
    IN  IF selects = {} THEN 0 ELSE lines[Max(selects)].id

\* d[key] = value
Put(d, key, value) == (key :> value) @@ d

\* The state before the second loop
ParseStart ==
    [in_profile_block |-> FALSE, current_profile_id |-> -1,
     profile_settings |-> EmptyDict, global_settings |-> EmptyDict]

\* Lines 55-87, one iteration of the second loop
ParseLine(st, line, active_profile_id) ==
    CASE line.kind = "header" ->
             [st EXCEPT !.in_profile_block = TRUE, !.current_profile_id = line.id]
      [] line.kind = "comment" /\ st.in_profile_block ->
             [st EXCEPT !.in_profile_block = FALSE, !.current_profile_id = -1]
      [] line.kind = "set" /\ line.key \in TARGET_KEYS ->
             IF st.in_profile_block /\ st.current_profile_id = active_profile_id
             THEN [st EXCEPT !.profile_settings =
                                  Put(st.profile_settings, line.key, ParseValue(line.token))]
             ELSE [st EXCEPT !.global_settings =
                                  Put(st.global_settings, line.key, ParseValue(line.token))]
      [] OTHER -> st

RECURSIVE ParseLines(_, _, _, _)
ParseLines(st, lines, i, active_profile_id) ==
    IF i > Len(lines) THEN st
    ELSE ParseLines(ParseLine(st, lines[i], active_profile_id), lines, i + 1,
                    active_profile_id)

\* Lines 89-100: settings = global_settings.copy(); settings.update(
\* profile_settings); None is returned for an empty settings dict
parse_dump(lines) ==
    LET st == ParseLines(ParseStart, lines, 1, ActiveProfileId(lines))
        settings == st.profile_settings @@ st.global_settings
    IN  [none |-> DOMAIN settings = {}, settings |-> settings]

\* The lines of the dumps: two profiles, a gain set to two values, a gain set
\* to one, a filter type and a key parse_dump does not extract
DumpLineKinds ==
    {SelectLine(0), SelectLine(1), HeaderLine(0), HeaderLine(1), OtherCommentLine,
     DumpSetLine(D_ROLL, "30"), DumpSetLine(D_ROLL, "99"), DumpSetLine(P_ROLL, "45"),
     DumpSetLine(GYRO_LPF1_TYPE, "PT1"), DumpSetLine("name", "45")}

DumpIdle ==
    /\ dump_lines = <<>>
    /\ dump_settings = [none |-> TRUE, settings |-> EmptyDict]
    /\ dump_pc = "idle"

DumpInit ==
    /\ dump_lines \in SeqsUpTo(DumpLineKinds, MaxDumpLines)
    /\ dump_settings = [none |-> TRUE, settings |-> EmptyDict]
    /\ dump_pc = "call"

CallParseDump ==
    /\ dump_pc = "call"
    /\ dump_settings' = parse_dump(dump_lines)
    /\ dump_pc' = "done"
    /\ UNCHANGED dump_lines
    /\ UNCHANGED othersDump

(***************************************************************************)
(* GainSets as objects.  A dict lives in the heap and is passed by         *)
(* reference: reference n is heap[n].  dict.copy() allocates a new object; *)
(* d[key] = value changes the object d refers to, for every holder of the  *)
(* reference.  Each tuning function is one call on the reference the       *)
(* caller passes.                                                          *)
(***************************************************************************)
\* reduction_percent=15 of propose_tune
REDUCTION_PERCENT == 15

\* (mutation of CopyRef: no copy is made, the same object is used)
SameRef(h, ref) == ref

\* The reference pids.copy() returns: a new object
CopyRef(h, ref) == Len(h) + 1

\* The heap after pids.copy()
Allocated(h, ref) == Append(h, h[ref])

\* d[key] = value on the object behind ref
Store(h, ref, key, value) == [h EXCEPT ![ref] = Put(h[ref], key, value)]

\* int(pids[key] * (1 - reduction_percent / 100))
Reduced(value) == IntVal(Trunc(value.v * (100 - REDUCTION_PERCENT), 100))

\* if key in pids: new_pids[key] = int(pids[key] * ...)
StoreReduced(h, pids, new_pids, key) ==
    IF key \in DOMAIN h[pids]
    THEN Store(h, new_pids, key, Reduced(h[pids][key]))
    ELSE h

\* Sliders passed to _compute_pids_from_sliders
FrameSliders == {InitialSliders, [InitialSliders EXCEPT ![M_MASTER] = CLIP_MAX]}

FrameFunctions ==
    {"propose_tune", "_compute_pids_from_sliders", "find_optimal_tune",
     "tune_with_sliders"}

FrameIdle ==
    /\ heap = <<>>
    /\ fr_function = "none"
    /\ fr_iterations = 0
    /\ fr_input = 0
    /\ fr_before = EmptyDict
    /\ fr_result = 0
    /\ fr_outcome = "none"
    /\ fr_pc = "idle"

\* The caller holds one GainSet and passes its reference
FrameInit ==
    /\ fr_before \in TuningGainSets
    /\ heap = <<fr_before>>
    /\ fr_input = 1
    /\ fr_function \in FrameFunctions
    /\ fr_iterations \in 0..MaxIterations
    /\ fr_function \in {"propose_tune", "_compute_pids_from_sliders"} =>
           fr_iterations = 0
    /\ fr_result = 0
    /\ fr_outcome = "none"
    /\ fr_pc = "call"

\* propose_tune, lines 183-188
CallProposeTune ==
    /\ fr_pc = "call"
    /\ fr_function = "propose_tune"
    /\ LET new_pids == CopyRef(heap, fr_input)
           h1 == Allocated(heap, fr_input)
           h2 == StoreReduced(h1, fr_input, new_pids, "d_roll")
       IN  /\ heap' = StoreReduced(h2, fr_input, new_pids, "d_pitch")
           /\ fr_result' = new_pids
    /\ fr_outcome' = "returned"
    /\ fr_pc' = "done"
    /\ UNCHANGED <<fr_function, fr_iterations, fr_input, fr_before>>
    /\ UNCHANGED othersFrame

\* _compute_pids_from_sliders, lines 213-226: every key is read from base_pids
\* before it is stored into pids
CallComputePidsFromSliders ==
    /\ fr_pc = "call"
    /\ fr_function = "_compute_pids_from_sliders"
    /\ \E sl \in FrameSliders :
           LET pids == CopyRef(heap, fr_input)
               h1 == Allocated(heap, fr_input)
           IN  /\ heap' = [h1 EXCEPT ![pids] =
                                _compute_pids_from_sliders(h1[fr_input], sl)]
               /\ fr_result' = pids
    /\ fr_outcome' = "returned"
    /\ fr_pc' = "done"
    /\ UNCHANGED <<fr_function, fr_iterations, fr_input, fr_before>>
    /\ UNCHANGED othersFrame

\* find_optimal_tune, lines 289-335: best_pids = initial_pids.copy(); with no
\* iteration best_pids is returned; the first iteration copies best_pids,
\* changes one key of the copy (KeyError when it is missing) and ends in the
\* TypeError of the call of validate_settings
CallFindOptimalTune ==
    /\ fr_pc = "call"
    /\ fr_function = "find_optimal_tune"
    /\ LET best == CopyRef(heap, fr_input)
           h1 == Allocated(heap, fr_input)
       IN  IF fr_iterations = 0
           THEN /\ heap' = h1
                /\ fr_result' = best
                /\ fr_outcome' = "returned"
           ELSE \E mode \in {"RP", "RPY"} :
                \E param_to_tweak \in ParamsToTweak(mode), adjustment \in Adjustments :
                    LET candidate_pids == CopyRef(h1, best)
                        h2 == Allocated(h1, best)
                    IN  /\ heap' =
                               IF param_to_tweak \in DOMAIN h2[candidate_pids]
                               THEN Store(h2, candidate_pids, param_to_tweak,
                                          IntVal(h2[candidate_pids][param_to_tweak].v
                                                 + adjustment))
                               ELSE h2
                        /\ \/ param_to_tweak \notin DOMAIN h2[candidate_pids]
                           \/ CallRaisesTypeError(OPTIMIZER_CALL_ARGUMENTS)
                        /\ fr_result' = 0
                        /\ fr_outcome' = "raised"
    /\ fr_pc' = "done"
    /\ UNCHANGED <<fr_function, fr_iterations, fr_input, fr_before>>
    /\ UNCHANGED othersFrame

\* tune_with_sliders, lines 232-281: with no iteration final_pids is computed
\* from the sliders at 1.0 and returned; the first iteration computes
\* current_pids and ends in the TypeError of the call of validate_settings
CallTuneWithSliders ==
    /\ fr_pc = "call"
    /\ fr_function = "tune_with_sliders"
    /\ LET pids == CopyRef(heap, fr_input)
           h1 == Allocated(heap, fr_input)
       IN  /\ heap' = [h1 EXCEPT ![pids] =
                            _compute_pids_from_sliders(h1[fr_input], InitialSliders)]
           /\ IF fr_iterations = 0
              THEN fr_result' = pids /\ fr_outcome' = "returned"
              ELSE /\ CallRaisesTypeError(SLIDERS_CALL_ARGUMENTS)
                   /\ fr_result' = 0
                   /\ fr_outcome' = "raised"
    /\ fr_pc' = "done"
    /\ UNCHANGED <<fr_function, fr_iterations, fr_input, fr_before>>
    /\ UNCHANGED othersFrame

(***************************************************************************)
(* gui.worker.LogLoaderWorker.process_files.  A file of the list is what   *)
(* load_log does on it: it returns (df, None), returns (None, error) or    *)
(* raises.  The signals are recorded in the order they are emitted.        *)
(***************************************************************************)
MaxFiles == 3

LOADED == "loaded"
FAILED == "failed"
RAISED == "raised"

LoadOutcomes == {LOADED, FAILED, RAISED}

\* self.progress.emit(f"Loading file {i + 1} of {total_files}: {file_path}...")
ProgressEmission(i) == [signal |-> "progress", file |-> i, payload |-> "loading"]
\* self.progress.emit("Ready")
ReadyEmission == [signal |-> "progress", file |-> -1, payload |-> "ready"]
\* self.finished.emit(file_path, df, error)
FinishedEmission(i, payload) == [signal |-> "finished", file |-> i, payload |-> payload]
\* self.all_finished.emit()
AllFinishedEmission == [signal |-> "all_finished", file |-> -1, payload |-> ""]

\* (mutation of FinishedEmitted: an exception of load_log is swallowed without
\* an emission)
FinishedEmittedNoneOnRaise(i, load_outcome, none_accepted) ==
    CASE load_outcome = LOADED /\ none_accepted -> <<FinishedEmission(i, "dataframe")>>
      [] load_outcome = LOADED /\ ~none_accepted -> <<FinishedEmission(i, "error")>>
      [] load_outcome = FAILED -> <<FinishedEmission(i, "error")>>
      [] OTHER -> <<>>

\* Lines 26-30: what the try statement emits for file i.  finished is declared
\* pyqtSignal(str, object, str) and a loaded file is emitted with error = None:
\* the binding either accepts None for the str argument (none_accepted), or
\* emit raises TypeError before emitting and the except clause emits
\* (file_path, None, str(e)); an exception of load_log reaches the same clause
FinishedEmitted(i, load_outcome, none_accepted) ==
    CASE load_outcome = LOADED /\ none_accepted -> <<FinishedEmission(i, "dataframe")>>
      [] load_outcome = LOADED /\ ~none_accepted -> <<FinishedEmission(i, "error")>>
      [] load_outcome = FAILED -> <<FinishedEmission(i, "error")>>
      [] OTHER -> <<FinishedEmission(i, "error")>>

WorkerIdle ==
    /\ w_file_paths = <<>>
    /\ w_i = 0
    /\ w_pc = "idle"
    /\ w_emitted = <<>>

WorkerInit ==
    /\ w_file_paths \in SeqsUpTo(LoadOutcomes, MaxFiles)
    /\ w_i = 0
    /\ w_pc = "progress"
    /\ w_emitted = <<>>

\* Line 25, for the next file of the list
WorkerProgress ==
    /\ w_pc = "progress"
    /\ w_i < Len(w_file_paths)
    /\ w_emitted' = Append(w_emitted, ProgressEmission(w_i))
    /\ w_pc' = "load"
    /\ UNCHANGED <<w_file_paths, w_i>>
    /\ UNCHANGED othersWorker

\* Lines 26-30, then the next file
WorkerLoad ==
    /\ w_pc = "load"
    /\ \E none_accepted \in BOOLEAN :
           w_emitted' = w_emitted \o FinishedEmitted(w_i, At(w_file_paths, w_i),
                                                     none_accepted)
    /\ w_i' = w_i + 1
    /\ w_pc' = "progress"
    /\ UNCHANGED w_file_paths
    /\ UNCHANGED othersWorker

\* Lines 32-33, after the last file
WorkerAllFinished ==
    /\ w_pc = "progress"
    /\ w_i >= Len(w_file_paths)
    /\ w_emitted' = w_emitted \o <<ReadyEmission, AllFinishedEmission>>
    /\ w_pc' = "done"
    /\ UNCHANGED <<w_file_paths, w_i>>
    /\ UNCHANGED othersWorker

(***************************************************************************)
(* Specifications                                                          *)
(***************************************************************************)
\* None of simulate_step_response, generate_cli, parse_dump, the calls on GainSet
\* objects and the worker is running
OutputIdle == SimulateIdle /\ CliIdle /\ DumpIdle /\ FrameIdle /\ WorkerIdle

\* No tuning function is running
TuningIdle ==
    FitnessIdle /\ ValidateIdle /\ OptimizerIdle /\ SlidersIdle /\ AdjustIdle

Init ==
    DetectInit /\ SamplingIdle /\ MetricsIdle /\ FixedIdle /\ TuningIdle /\ OutputIdle

Next ==
    \/ EnterGuard
    \/ EnterConvert
    \/ Iterate
    \/ Return

Spec == Init /\ [][Next]_vars

SamplingNext == CallGetSamplingFrequency

InitSampling ==
    DetectIdle /\ SamplingInit /\ MetricsIdle /\ FixedIdle /\ TuningIdle /\ OutputIdle

SpecSampling == InitSampling /\ [][SamplingNext]_vars

MetricsNext ==
    \/ CallStepResponseMetrics
    \/ CallCalculateResponseMetrics

InitMetrics ==
    DetectIdle /\ SamplingIdle /\ MetricsInit /\ FixedIdle /\ TuningIdle /\ OutputIdle

SpecMetrics == InitMetrics /\ [][MetricsNext]_vars

FixedNext ==
    \/ FixedRaise
    \/ FixedStartScan
    \/ FixedScan
    \/ FixedReturn

InitFixed ==
    DetectIdle /\ SamplingIdle /\ MetricsIdle /\ FixedInit /\ TuningIdle /\ OutputIdle

SpecFixed == InitFixed /\ [][FixedNext]_vars

\* No analysis function is running
AnalysisIdle == DetectIdle /\ SamplingIdle /\ MetricsIdle /\ FixedIdle

FitnessNext == CallCalculateFitness

InitFitness ==
    /\ AnalysisIdle /\ OutputIdle
    /\ FitnessInit /\ ValidateIdle /\ OptimizerIdle /\ SlidersIdle /\ AdjustIdle

SpecFitness == InitFitness /\ [][FitnessNext]_vars

ValidateNext == CallValidateSettings

InitValidate ==
    /\ AnalysisIdle /\ OutputIdle
    /\ FitnessIdle /\ ValidateInit /\ OptimizerIdle /\ SlidersIdle /\ AdjustIdle

SpecValidate == InitValidate /\ [][ValidateNext]_vars

\* One call of find_optimal_tune or one call of tune_with_sliders
TuneNext ==
    \/ OptimizerBaseline
    \/ OptimizerIterate
    \/ OptimizerReturn
    \/ SlidersIterate
    \/ SlidersReturn

InitTune ==
    /\ AnalysisIdle /\ OutputIdle
    /\ FitnessIdle /\ ValidateIdle /\ AdjustIdle
    /\ \/ OptimizerInit /\ SlidersIdle
       \/ OptimizerIdle /\ SlidersInit

SpecTune == InitTune /\ [][TuneNext]_vars

AdjustNext == CallAdjustSliders

InitAdjust ==
    /\ AnalysisIdle /\ OutputIdle
    /\ FitnessIdle /\ ValidateIdle /\ OptimizerIdle /\ SlidersIdle /\ AdjustInit

SpecAdjust == InitAdjust /\ [][AdjustNext]_vars

SimulateNext ==
    \/ SimulateEnter
    \/ SimulateIterate
    \/ SimulateReturn

InitSimulate ==
    /\ AnalysisIdle /\ TuningIdle
    /\ SimulateInit /\ CliIdle /\ DumpIdle /\ FrameIdle /\ WorkerIdle

SpecSimulate == InitSimulate /\ [][SimulateNext]_vars

CliNext == CallGenerateCli

InitCli ==
    /\ AnalysisIdle /\ TuningIdle
    /\ SimulateIdle /\ CliInit /\ DumpIdle /\ FrameIdle /\ WorkerIdle

SpecCli == InitCli /\ [][CliNext]_vars

DumpNext == CallParseDump

InitDump ==
    /\ AnalysisIdle /\ TuningIdle
    /\ SimulateIdle /\ CliIdle /\ DumpInit /\ FrameIdle /\ WorkerIdle

SpecDump == InitDump /\ [][DumpNext]_vars

FrameNext ==
    \/ CallProposeTune
    \/ CallComputePidsFromSliders
    \/ CallFindOptimalTune
    \/ CallTuneWithSliders

InitFrame ==
    /\ AnalysisIdle /\ TuningIdle
    /\ SimulateIdle /\ CliIdle /\ DumpIdle /\ FrameInit /\ WorkerIdle

SpecFrame == InitFrame /\ [][FrameNext]_vars

WorkerNext ==
    \/ WorkerProgress
    \/ WorkerLoad
    \/ WorkerAllFinished

InitWorker ==
    /\ AnalysisIdle /\ TuningIdle
    /\ SimulateIdle /\ CliIdle /\ DumpIdle /\ FrameIdle /\ WorkerInit

\* process_files runs in its thread until it returns: a step that can be taken
\* is taken
SpecWorker == InitWorker /\ [][WorkerNext]_vars /\ WF_vars(WorkerNext)

(***************************************************************************)
(* Claims about find_step_responses                                        *)
(***************************************************************************)
IsSysId == variant = "system_identification"

\* The candidates the loop has already gone through
Processed == {potential_steps[k] : k \in 1..pos}

StepsOf(ws) == {ws[k][2] : k \in 1..Len(ws)}

\* C1: the windows returned by one run of system_identification's
\* find_step_responses are pairwise non-overlapping: each window ends strictly
\* before the next one starts.
C1_WindowsDoNotOverlap ==
    IsSysId =>
        \A k \in 1..(Len(found_steps) - 1) :
            found_steps[k][3] < found_steps[k + 1][1]

\* C2: every window of system_identification's find_step_responses is exactly
\* (i - pre_indices, i, i + post_indices) for a candidate i, lies inside the
\* series with 0 <= start <= step < end <= len - 1, and a candidate whose window
\* would leave the series yields no window.
C2_WindowsInsideSeries ==
    (IsSysId /\ pc \in {"loop", "done"} /\ outcome # "raised") =>
        /\ \A k \in 1..Len(found_steps) :
              LET w == found_steps[k]
              IN  /\ w[2] \in Processed
                  /\ w[1] = w[2] - ms_to_indices(params.pre_step_flat_ms,
                                                 GuardedFs(time_us.v))
                  /\ w[3] = w[2] + ms_to_indices(params.post_step_flat_ms,
                                                 GuardedFs(time_us.v))
                  /\ 0 <= w[1]
                  /\ w[1] <= w[2]
                  /\ w[2] < w[3]
                  /\ w[3] <= Len(rc_command.v) - 1
        /\ \A i \in Processed :
              (i - pre_indices < 0 \/ i + post_indices > Len(rc_command.v) - 1)
                  => i \notin StepsOf(found_steps)

\* C2 witness: a finished run that returned a window and also dropped a
\* candidate whose window would have run past the last sample.
C2_Witness ==
    /\ IsSysId
    /\ pc = "done"
    /\ Len(found_steps) >= 1
    /\ \E i \in Processed : i + post_indices > Len(rc_command.v) - 1
    /\ \E i \in Processed : i - pre_indices < 0

\* A signal flat at one level for n1 samples, then flat at another level
TwoLevelAt(rc, n1) ==
    /\ n1 \in 1..(Len(rc) - 1)
    /\ \A k \in 1..n1 : rc[k] = rc[1]
    /\ \A k \in (n1 + 1)..Len(rc) : rc[k] = rc[Len(rc)]
    /\ rc[1] # rc[Len(rc)]

\* The case of C3: a finished run on a two-level signal whose level difference
\* is above the threshold, with n1 >= pre_indices and n2 > post_indices
C3_Case(n1) ==
    /\ IsSysId
    /\ pc = "done"
    /\ ~rc_command.none
    /\ ~time_us.none
    /\ TwoLevelAt(rc_command.v, n1)
    /\ Abs(rc_command.v[Len(rc_command.v)] - rc_command.v[1]) > params.threshold
    /\ n1 >= pre_indices
    /\ Len(rc_command.v) - n1 > post_indices

C3_OneWindowAt(n1) ==
    /\ outcome = "returned"
    /\ Len(found_steps) = 1
    /\ Abs(found_steps[1][2] - n1) <= 1

\* Threshold and std_dev_max as a caller means them
C3_Sensible ==
    /\ params.threshold >= 0
    /\ params.std_dev_max > 0

C3_Extra ==
    /\ pre_indices >= 2
    /\ post_indices >= 2
    /\ post_indices > min_duration_indices

C6_ZeroDurationUsesFallback ==
    ( /\ variant \in Variants
      /\ pc \in {"loop", "done"}
      /\ ~rc_command.none
      /\ ~time_us.none
      /\ Len(rc_command.v) > 0
      /\ DurationUs(time_us.v) = 0 ) =>
        /\ outcome # "raised"
        /\ pre_indices = Trunc(params.pre_step_flat_ms * 2000, 1000)
        /\ post_indices = Trunc(params.post_step_flat_ms * 2000, 1000)
        /\ min_duration_indices = Trunc(params.min_step_duration_ms * 2000, 1000)

(***************************************************************************)
(* Claims about get_sampling_frequency                                     *)
(***************************************************************************)
\* The value C7 describes, case by case
C7_Described(ts) ==
    IF ~ts.none /\ Len(ts.v) >= 2 /\ SumDiffs(ts.v) > 0
    THEN Val(Len(ts.v) - 1, SumDiffs(ts.v))
    ELSE IF ~ts.none /\ Len(ts.v) >= 1 /\ DurationUs(ts.v) > 0
         THEN Val(Len(ts.v) - 1, DurationUs(ts.v))
         ELSE Hz(2000)

\* C7: get_sampling_frequency always returns a strictly positive frequency:
\* 1/mean_interval when the mean interval is positive, otherwise
\* (n-1)/total_duration when that is positive, otherwise 2000 Hz.
C7_PositiveFrequency ==
    fs_pc = "done" =>
        /\ IsPositive(fs_result)
        /\ SameVal(fs_result, C7_Described(time_series_us))

\* C7 witness: the three cases have been returned from: a decreasing series,
\* a constant one (both give the default), and an increasing one
C7_Witness ==
    /\ fs_pc = "done"
    /\ ~time_series_us.none
    /\ Len(time_series_us.v) >= 2
    /\ SumDiffs(time_series_us.v) < 0
    /\ SameVal(fs_result, Hz(2000))

(***************************************************************************)
(* Claims about the response metrics                                       *)
(***************************************************************************)
IsSysMetrics == m_variant = "system_identification"
IsTunMetrics == m_variant = "tuning"

\* Sample k has covered tenths/10 of the net change val_f_out - val_i_out,
\* whichever its sign: (y - val_i) * net >= tenths/10 * net^2
C8_Covered(y, tenths) ==
    {k \in Idx(y) :
        10 * (Nm(y) * At(y, k) - Si(y)) * (Sf(y) - Si(y))
            >= tenths * (Sf(y) - Si(y)) * (Sf(y) - Si(y))}

C8_Described(t, y) ==
    IF C8_Covered(y, 1) = {} \/ C8_Covered(y, 9) = {}
    THEN NaN
    ELSE Num(At(t, Min(C8_Covered(y, 9))) - At(t, Min(C8_Covered(y, 1))))

\* C8: for every slice, rising or falling, step_response_metrics reports as
\* rise_time the time between the first sample that has covered 10% of the net
\* change and the first sample that has covered 90% of it, and NaN when one of
\* the two is never covered.
C8_RiseTimeBothDirections ==
    (m_pc = "done" /\ IsSysMetrics /\ m_outcome = "returned") =>
        SameVal(m_result[RISE], C8_Described(m_time, m_output))

\* Samples farther from the final value than 2%, the band taken with a
\* non-negative half-width
C9_Outside ==
    IF IsSysMetrics
    THEN {k \in Idx(m_output) :
            50 * Abs(Nm(m_output) * At(m_output, k) - Sf(m_output))
                > Abs(Sf(m_output) - Si(m_output))}
    ELSE {k \in Idx(m_output) :
            50 * Abs(Nt(m_output) * At(m_output, k) - St(m_output))
                > Abs(St(m_output))}

\* Time of sample k as each function reports it (relative to the first sample
\* in step_response_metrics, absolute in calculate_response_metrics)
C9_Time(k) ==
    IF IsSysMetrics THEN At(m_time, k) - At(m_time, 0) ELSE At(m_time, k)

\* C9: settling time is the time of the last sample outside the 2% band around
\* the final value, the time of the first sample when none is outside, and every
\* later sample lies inside the band; for positive, zero and negative final values.
C9_SettlingIsLastOutside ==
    (m_pc = "done" /\ m_outcome = "returned" /\ SETTLING \in DOMAIN m_result) =>
        /\ ~m_result[SETTLING].nan
        /\ m_result[SETTLING].num =
               C9_Time(IF C9_Outside = {} THEN 0 ELSE Max(C9_Outside))
        /\ \A k \in Idx(m_output) :
               C9_Time(k) > m_result[SETTLING].num => k \notin C9_Outside

\* The fields each function reports
C10_Fields ==
    IF IsSysMetrics
    THEN {AMPLITUDE, RISE, OVERSHOOT, SETTLING}
    ELSE {OVERSHOOT, RISE, SETTLING, OSCILLATION}

\* C10: a metric that cannot be computed (no threshold crossing, empty trace,
\* oscillation over an undefined settling time) is reported as NaN in its
\* field: the call returns, the field is present, and it is not 0.
C10_UndefinedIsSentinel ==
    m_pc = "done" =>
        /\ m_outcome = "returned"
        /\ C10_Fields \subseteq DOMAIN m_result
        /\ Len(m_output) = 0 =>
               /\ m_result[RISE].nan
               /\ m_result[SETTLING].nan
        /\ (IsTunMetrics /\ (TunAtOrAbove(m_output, 1) = {}
                             \/ TunAtOrAbove(m_output, 9) = {})) =>
               m_result[RISE].nan
        /\ (IsSysMetrics /\ (AtOrAbove(m_output, 1) = {}
                             \/ AtOrAbove(m_output, 9) = {})) =>
               m_result[RISE].nan
        /\ (IsTunMetrics /\ m_result[SETTLING].nan) => m_result[OSCILLATION].nan

(***************************************************************************)
(* Claims about step_response_fixed.find_step_responses                    *)
(***************************************************************************)
\* The three conditions of C4 at index i: (1) the pre_window samples before i
\* and the post_window samples from i on are both stable, (2) their means
\* differ by at least the threshold, (3) the min_step_duration samples from i
\* on are stable
C4_Conditions(i) ==
    /\ StdAtMostFilled(Slice(rc_smooth, i - n_pre, i), f_params.stability_std_thresh)
    /\ StdAtMostFilled(Slice(rc_smooth, i, i + n_post), f_params.stability_std_thresh)
    /\ DeltaLargeEnough(i)
    /\ HeldLongEnough(i)

\* C4: step_response_fixed records index i as a candidate if and only if the
\* trailing pre window ending at i and the leading post window starting at i
\* are both stable, their means differ by at least the threshold, and the run
\* of min_step_duration samples after i is stable.
C4_CandidateIffConditions ==
    (f_pc = "done" /\ f_outcome = "returned") =>
        \A i \in n_pre..(N - n_post - 2) :
            (\E k \in 1..Len(candidates) : candidates[k] = i) <=> C4_Conditions(i)

\* C5: step detection called with a null command signal, a null timestamp
\* series or an empty command signal returns an empty list and raises nothing.
C5_NullOrEmptyReturnsEmpty ==
    /\ ( /\ pc = "done"
         /\ (rc_command.none \/ time_us.none \/ Len(rc_command.v) = 0) ) =>
            (outcome = "returned" /\ found_steps = <<>>)
    /\ ( /\ f_pc = "done"
         /\ (f_rc_command.none \/ f_time_us.none \/ Len(f_rc_command.v) = 0) ) =>
            (f_outcome = "returned" /\ f_windows = <<>>)

(***************************************************************************)
(* Claims about _calculate_fitness                                         *)
(***************************************************************************)
\* The metrics C11 names: an empty result, an undefined settling time or an
\* overshoot above 100%
C11_Infeasible ==
    \/ DOMAIN fit_metrics = {}
    \/ SETTLING \in DOMAIN fit_metrics /\ fit_metrics[SETTLING].nan
    \/ OVERSHOOT \in DOMAIN fit_metrics /\ Above100(fit_metrics[OVERSHOOT])

\* C11: _calculate_fitness returns +infinity whenever the metrics are empty,
\* the settling time is NaN or the overshoot is above 100%, whatever the
\* weights (zero, negative, missing).
C11_InfeasibleIsInfinite ==
    (fit_pc = "done" /\ C11_Infeasible) => fit_result = PlusInf

\* C11 witness: a NaN settling time under a zero settling weight and a missing
\* overshoot weight, the overshoot itself acceptable, scored +infinity
C11_Witness ==
    /\ fit_pc = "done"
    /\ SETTLING \in DOMAIN fit_metrics /\ fit_metrics[SETTLING].nan
    /\ OVERSHOOT \in DOMAIN fit_metrics /\ fit_metrics[OVERSHOOT] = Num(100)
    /\ W_SETTLING \in DOMAIN fit_weights /\ fit_weights[W_SETTLING] = 0
    /\ W_OVERSHOOT \notin DOMAIN fit_weights
    /\ fit_result = PlusInf

(***************************************************************************)
(* Claims about validate_settings                                          *)
(***************************************************************************)
\* C12: validate_settings gives an absolute warning for a key if and only if
\* the key has a (min, max) in safe_ranges, is in the candidate with a numeric
\* value, and the value is below min or above max; min and max themselves pass.
C12_AbsoluteWarningIffOutside ==
    (v_pc = "done" /\ v_outcome = "returned") =>
        \A key \in GainKeys :
            <<ABSOLUTE, key>> \in v_warnings <=>
                /\ key \in DOMAIN v_safe_ranges
                /\ key \in DOMAIN v_proposed
                /\ v_proposed[key].numeric
                /\ \/ v_proposed[key].v < v_safe_ranges[key][1]
                   \/ v_proposed[key].v > v_safe_ranges[key][2]

\* C12 witness: d_roll = 5 against (10, 100) is flagged, while p_roll = 17
\* against (5, 17) sits on its bound and is not
C12_Witness ==
    /\ v_pc = "done"
    /\ v_outcome = "returned"
    /\ D_ROLL \in DOMAIN v_safe_ranges /\ v_safe_ranges[D_ROLL] = <<10, 100>>
    /\ D_ROLL \in DOMAIN v_proposed /\ v_proposed[D_ROLL] = IntVal(5)
    /\ <<ABSOLUTE, D_ROLL>> \in v_warnings
    /\ P_ROLL \in DOMAIN v_safe_ranges
    /\ P_ROLL \in DOMAIN v_proposed /\ v_proposed[P_ROLL] = IntVal(17)
    /\ <<ABSOLUTE, P_ROLL>> \notin v_warnings

\* The ratio candidate / original lies in [0.5, 1.7]: a number r of that range
\* has candidate = r * original (no ratio of a non-zero candidate to an
\* original of 0 does)
C13_RatioInRange(pv, ov) ==
    IF ov > 0 THEN 2 * pv >= ov /\ 10 * pv <= 17 * ov
    ELSE IF ov < 0 THEN 2 * pv <= ov /\ 10 * pv >= 17 * ov
    ELSE pv = 0

\* C13: validate_settings gives a relative warning for a key if and only if
\* the key is a P, I or D term in both GainSets and candidate / original is
\* outside [0.5, 1.7], for every original value, 0 included; feedforward terms
\* get none.
C13_RelativeWarningIffRatioOutside ==
    (v_pc = "done" /\ v_outcome = "returned") =>
        \A key \in GainKeys :
            <<RELATIVE, key>> \in v_warnings <=>
                /\ key \in {P_ROLL, D_ROLL}
                /\ key \in DOMAIN v_proposed
                /\ key \in DOMAIN v_original
                /\ v_proposed[key].numeric
                /\ v_original[key].numeric
                /\ ~C13_RatioInRange(v_proposed[key].v, v_original[key].v)

\* C14: validate_settings never raises on GainSets as parse_dump produces
\* them, string values included: it returns its warnings, and a key with a
\* non-numeric value gets no warning from either check.
C14_NeverRaisesOnStrings ==
    v_pc = "done" =>
        /\ v_outcome = "returned"
        /\ \A key \in DOMAIN v_proposed :
               ~v_proposed[key].numeric =>
                   (<<RELATIVE, key>> \notin v_warnings /\ <<ABSOLUTE, key>> \notin v_warnings)

(***************************************************************************)
(* Claims about find_optimal_tune and tune_with_sliders                    *)
(***************************************************************************)
\* C15: find_optimal_tune called with iterations = 0 returns a GainSet with
\* exactly the keys and values of the input GainSet, for every GainSet and mode.
C15_ZeroIterationsReturnsInput ==
    (o_pc = "done" /\ o_iterations = 0) =>
        (o_outcome = "returned" /\ o_result = o_initial_pids)

\* C15 witness: a run with no iteration has returned a GainSet that holds a
\* filter type next to its gains
C15_Witness ==
    /\ o_pc = "done"
    /\ o_iterations = 0
    /\ o_initial_pids = FullGainSet
    /\ o_outcome = "returned"
    /\ o_result = FullGainSet

\* A candidate of one iteration: the best GainSet with one tweaked key moved by
\* an adjustment, free of absolute warnings
C16_ValidatedCandidates(pids) ==
    {[pids EXCEPT ![key] = IntVal(pids[key].v + adjustment)] :
        key \in ParamsToTweak(o_mode) \cap DOMAIN pids, adjustment \in Adjustments}

\* C16: in a run of find_optimal_tune with one iteration the best GainSet is
\* only replaced by a warning-free, strictly better candidate, so the run
\* returns a GainSet that is the input or a candidate that passed validation.
C16_ReturnsInputOrValidatedCandidate ==
    (o_pc = "done" /\ o_iterations = 1) =>
        /\ o_outcome = "returned"
        /\ \/ o_result = o_initial_pids
           \/ /\ o_result \in C16_ValidatedCandidates(o_initial_pids)
              /\ AbsoluteWarnings(o_result, DefaultSafeRanges) = {}

\* C17: for iterations >= 1 find_optimal_tune and tune_with_sliders run to
\* completion and return a GainSet after at most `iterations` iterations; a
\* failure on one candidate is not propagated to the caller.
C17_RunsToCompletion ==
    /\ (o_pc = "done" /\ o_iterations >= 1) =>
           (o_outcome = "returned" /\ o_count <= o_iterations)
    /\ (s_pc = "done" /\ s_iterations >= 1) =>
           (s_outcome = "returned" /\ s_count <= s_iterations)

\* C20: when the GainSet of the multipliers makes the validator warn in the
\* first iteration of tune_with_sliders, the loop ends at once and the run
\* returns these multipliers and this GainSet.
C20_StopsOnFirstWarning ==
    (/\ s_pc = "done"
     /\ s_iterations >= 1
     /\ AbsoluteWarnings(_compute_pids_from_sliders(s_base_pids, InitialSliders),
                         DefaultSafeRanges) # {}) =>
        /\ s_outcome = "returned"
        /\ sliders = InitialSliders
        /\ s_result = _compute_pids_from_sliders(s_base_pids, InitialSliders)

(***************************************************************************)
(* Claims about the slider adjustment of tune_with_sliders                 *)
(***************************************************************************)
\* C18: after the adjustment of an iteration each of the five multipliers lies
\* in the closed range [0.5, 2.0], whatever overshoot and rise time were
\* measured.
C18_MultipliersInRange ==
    /\ \A k \in SliderKeys : sliders[k] >= CLIP_MIN /\ sliders[k] <= CLIP_MAX
    /\ a_pc = "done" =>
           \A k \in SliderKeys : a_result[k] >= CLIP_MIN /\ a_result[k] <= CLIP_MAX

\* C18 witness: damp at 2.0 under a high overshoot stays at 2.0, and master at
\* 0.5 under a short rise time stays at 0.5
C18_Witness ==
    /\ a_pc = "done"
    /\ a_sliders[M_DAMP] = CLIP_MAX
    /\ a_sliders[M_MASTER] = CLIP_MIN
    /\ OVERSHOOT \in DOMAIN a_metrics /\ a_metrics[OVERSHOOT] = Num(7)
    /\ RISE \in DOMAIN a_metrics /\ a_metrics[RISE] = Val(30, 1000)
    /\ a_result[M_DAMP] = CLIP_MAX
    /\ a_result[M_MASTER] = CLIP_MIN

\* The overshoot and rise time an iteration reads from its metrics
C19_Overshoot == Get(a_metrics, OVERSHOOT, Num(0))
C19_RiseTime == Get(a_metrics, RISE, Num(1))

\* The iteration has adjusted its multipliers
C19_Adjusted == a_pc = "done" /\ ~AdjustmentSkipped(a_metrics)

\* C19 as stated: when the measured overshoot exceeds its target by more than
\* 20% the damp and tracking multipliers are decreased, neither is increased;
\* when the measured rise time exceeds its target by more than 20% the master
\* multiplier is increased (up to the clamp).
C19_Original ==
    C19_Adjusted =>
        /\ AboveTarget(C19_Overshoot, TARGET_OVERSHOOT, 1) =>
               /\ a_result[M_DAMP] <= a_sliders[M_DAMP]
               /\ a_result[M_TRACKING] <= a_sliders[M_TRACKING]
        /\ AboveTarget(C19_RiseTime, TARGET_RISE_MS, 1000) =>
               a_result[M_MASTER] >= a_sliders[M_MASTER]

\* C19 amended: when the measured overshoot exceeds its target by more than
\* 20% the damp multiplier is raised by 0.02 and the tracking multiplier lowered
\* by 0.01; when the measured rise time exceeds its target by more than 20% the
\* master multiplier is raised by 0.02; each within the clamp [0.5, 2.0].
C19_DampUpTrackingDownMasterUp ==
    C19_Adjusted =>
        /\ AboveTarget(C19_Overshoot, TARGET_OVERSHOOT, 1) =>
               /\ a_result[M_DAMP] = Min({a_sliders[M_DAMP] + STEP, CLIP_MAX})
               /\ a_result[M_TRACKING] = Max({a_sliders[M_TRACKING] - HALF_STEP, CLIP_MIN})
        /\ AboveTarget(C19_RiseTime, TARGET_RISE_MS, 1000) =>
               a_result[M_MASTER] = Min({a_sliders[M_MASTER] + STEP, CLIP_MAX})

\* C19 witness: an overshoot of 7% and a rise time of 70 ms at multipliers of
\* 1.0 give damp 1.02, tracking 0.99 and master 1.02
C19_Witness ==
    /\ a_pc = "done"
    /\ a_sliders = InitialSliders
    /\ OVERSHOOT \in DOMAIN a_metrics /\ a_metrics[OVERSHOOT] = Num(7)
    /\ RISE \in DOMAIN a_metrics /\ a_metrics[RISE] = Val(70, 1000)
    /\ a_result[M_DAMP] = ONE + STEP
    /\ a_result[M_TRACKING] = ONE - HALF_STEP
    /\ a_result[M_MASTER] = ONE + STEP

(***************************************************************************)
(* Claims about simulate_step_response                                     *)
(***************************************************************************)
\* The GainSet holds no P, I or D gain of the requested axis
C21_NoGainOfAxis ==
    \A term \in {"p", "i", "d"} : KeyOf(term, sim_axis) \notin DOMAIN sim_pids

\* C21: simulate_step_response called with a GainSet that holds no gain of the
\* requested axis signals 'no input' instead of returning the trace of a
\* zero-gain system, and the callers' `if not sim_results` test skips it.
C21_NoGainSignalsNoInput ==
    (sim_pc = "done" /\ C21_NoGainOfAxis) =>
        (sim_result # "dict" /\ ~Truthy(sim_result))

\* C22: for disturbance_magnitude > 0 and 0 < disturbance_time < duration the
\* disturbance is added in exactly one iteration of the simulation loop, for
\* every step count and duration.
C22_DisturbanceInExactlyOneIteration ==
    (/\ sim_pc = "done"
     /\ sim_result = "dict"
     /\ sim_magnitude > 0
     /\ sim_disturbance_time.num > 0
     /\ sim_disturbance_time.num < sim_duration * sim_disturbance_time.den) =>
        sim_applied = 1

(***************************************************************************)
(* Claims about generate_cli                                               *)
(***************************************************************************)
\* Line i of the text is the command `set <key> = <value>` of a gain of the
\* GainSet
C23_IsSetOfGain(i) ==
    /\ cli_lines[i].kind = "set"
    /\ cli_lines[i].key \in DOMAIN cli_pids
    /\ cli_lines[i] = SetLine(cli_lines[i].key, cli_pids[cli_lines[i].key])

\* C23 as stated: every line before the last is `set <key> = <value>` for a
\* gain of the GainSet and the last line is `save`; there is no comment and no
\* blank line.
C23_Original ==
    cli_pc = "done" =>
        /\ Len(cli_lines) >= 1
        /\ cli_lines[Len(cli_lines)] = SaveLine
        /\ \A i \in 1..(Len(cli_lines) - 1) : C23_IsSetOfGain(i)

\* C23 amended: the text starts with one comment line and ends with an empty
\* line followed by the single command `save`; every line in between is
\* `set <key> = <value>` for a roll or pitch gain of the GainSet, one command
\* per line, or the empty line that precedes `set p_pitch`.
C23_CommentThenSetsThenSave ==
    cli_pc = "done" =>
        LET n == Len(cli_lines)
        IN  /\ n >= 3
            /\ cli_lines[1] = CommentLine
            /\ cli_lines[n - 1] = BlankLine
            /\ cli_lines[n] = SaveLine
            /\ \A i \in 2..(n - 2) :
                   \/ /\ C23_IsSetOfGain(i)
                      /\ cli_lines[i].key \in
                             {KeyOf(term, axis) : term \in Terms, axis \in {"roll", "pitch"}}
                   \/ /\ cli_lines[i] = BlankLine
                      /\ cli_lines[i + 1].kind = "set"
                      /\ cli_lines[i + 1].key = "p_pitch"

\* C23 witness: a GainSet with p_roll and p_pitch gives the comment, set p_roll,
\* an empty line, set p_pitch, an empty line and save
C23_Witness ==
    /\ cli_pc = "done"
    /\ DOMAIN cli_pids = {"p_roll", "p_pitch"}
    /\ cli_lines = <<CommentLine, SetLine("p_roll", IntVal(45)), BlankLine,
                     SetLine("p_pitch", IntVal(47)), BlankLine, SaveLine>>

\* C26: every P, I, D and feedforward gain of roll, pitch and yaw that is in
\* the GainSet appears in the output of generate_cli as exactly one
\* `set <key> = <value>` line carrying its value.
C26_EveryGainHasOneSetLine ==
    cli_pc = "done" =>
        \A key \in AxisKeys \cap DOMAIN cli_pids :
            /\ Cardinality({i \in 1..Len(cli_lines) :
                               cli_lines[i].kind = "set" /\ cli_lines[i].key = key}) = 1
            /\ \E i \in 1..Len(cli_lines) : cli_lines[i] = SetLine(key, cli_pids[key])

(***************************************************************************)
(* Claims about parse_dump                                                 *)
(***************************************************************************)
\* The profile block line i lies in: the id of the last `# profile <id>` line
\* before it when no other comment or empty line follows that header, and -1
\* outside every block
C24_BlockOf(i) ==
    LET marks == {j \in 1..(i - 1) : dump_lines[j].kind \in {"header", "comment"}}
    IN  IF marks = {} \/ dump_lines[Max(marks)].kind = "comment"
        THEN -1
        ELSE dump_lines[Max(marks)].id

\* The lines that set a recognized key inside a block of the given profile
\* (-1: outside every block)
C24_SetsIn(key, block) ==
    {i \in 1..Len(dump_lines) :
        /\ dump_lines[i].kind = "set"
        /\ dump_lines[i].key = key
        /\ C24_BlockOf(i) = block}

\* The value the claim gives a key: the last one set in the block of the
\* active profile, otherwise the last one set outside every block
C24_Expected(key) ==
    LET active == C24_SetsIn(key, ActiveProfileId(dump_lines))
        global == C24_SetsIn(key, -1)
    IN  IF active # {} THEN ParseValue(dump_lines[Max(active)].token)
        ELSE IF global # {} THEN ParseValue(dump_lines[Max(global)].token)
        ELSE Absent

\* C24: parse_dump gives each recognized key the value set inside the block of
\* the active profile when that block sets it, and otherwise the value set
\* outside every profile block; a value set only inside the block of a
\* non-active profile never appears and never overrides a global value.
C24_ScopedToActiveProfile ==
    dump_pc = "done" =>
        \A key \in TARGET_KEYS :
            IF C24_Expected(key) = Absent
            THEN key \notin DOMAIN dump_settings.settings
            ELSE /\ key \in DOMAIN dump_settings.settings
                 /\ dump_settings.settings[key] = C24_Expected(key)

(***************************************************************************)
(* Claims about the GainSet objects the tuning functions receive           *)
(***************************************************************************)
\* C25: after a call of propose_tune, _compute_pids_from_sliders,
\* find_optimal_tune or tune_with_sliders, with any number of iterations, the
\* GainSet the caller passed has the keys and values it had before the call,
\* and a returned GainSet is another object.
C25_InputUnchangedResultDistinct ==
    fr_pc = "done" =>
        /\ heap[fr_input] = fr_before
        /\ fr_outcome = "returned" =>
               (fr_result \in 1..Len(heap) /\ fr_result # fr_input)

\* C25 witness: propose_tune has returned a GainSet with a reduced d_roll while
\* the caller's GainSet keeps its d_roll
C25_Witness ==
    /\ fr_pc = "done"
    /\ fr_function = "propose_tune"
    /\ fr_outcome = "returned"
    /\ fr_before = FullGainSet
    /\ heap[fr_input][D_ROLL] = IntVal(45)
    /\ heap[fr_result][D_ROLL] = IntVal(38)

(***************************************************************************)
(* Claims about the sliders at 1.0, the fitness score and the returned     *)
(* GainSet of find_optimal_tune                                            *)
(***************************************************************************)
\* C27: with all five multipliers at 1.0 _compute_pids_from_sliders is the
\* identity on GainSets (no key added, no value changed), so tune_with_sliders
\* with iterations = 0 returns the input gains unchanged.
C27_SlidersAtOneAreIdentity ==
    (s_pc = "done" /\ s_iterations = 0) =>
        (s_outcome = "returned" /\ s_result = s_base_pids)

\* C28: the score of _calculate_fitness is +infinity or a finite number, never
\* NaN, whatever rise time and oscillation the metrics hold.
C28_ScoreIsNeverNaN ==
    fit_pc = "done" => ~fit_result.nan

C30_IsFinished(e) == e.signal = "finished"
C30_IsAllFinished(e) == e.signal = "all_finished"

\* The emissions so far: the finished emissions are those of the first files of
\* the list, one each and in the order of the list, with an error for a file
\* load_log failed on; each directly follows the progress emission of its file;
\* all_finished is emitted at most once and nothing follows it; when
\* process_files has returned every file has its finished emission and
\* all_finished has been emitted
C30_Emissions ==
    LET finished == SelectSeq(w_emitted, C30_IsFinished)
        all_finished == SelectSeq(w_emitted, C30_IsAllFinished)
    IN  /\ Len(finished) <= Len(w_file_paths)
        /\ \A k \in 1..Len(finished) :
               /\ finished[k].file = k - 1
               /\ finished[k].payload \in {"dataframe", "error"}
               /\ w_file_paths[k] \in {FAILED, RAISED} => finished[k].payload = "error"
        /\ \A p \in 1..Len(w_emitted) :
               C30_IsFinished(w_emitted[p]) =>
                   (p > 1 /\ w_emitted[p - 1] = ProgressEmission(w_emitted[p].file))
        /\ Len(all_finished) <= 1
        /\ Len(all_finished) = 1 =>
               (w_pc = "done" /\ w_emitted[Len(w_emitted)] = AllFinishedEmission)
        /\ w_pc = "done" =>
               (Len(finished) = Len(w_file_paths) /\ Len(all_finished) = 1)

\* C30: for every list of file paths each file yields exactly one finished
\* emission (also when load_log raises), in the order of the list and after
\* the file's progress emission, and all_finished is emitted exactly once,
\* after the last finished emission; a failure on one file does not keep
\* process_files from processing the others and returning.
C30_OneFinishedPerFileThenAllFinished ==
    []C30_Emissions /\ <>(w_pc = "done")

\* C30 witness: load_log raises on the first of two files and loads the
\* second; both have their finished emission and all_finished is the last
C30_Witness ==
    /\ w_pc = "done"
    /\ w_file_paths = <<RAISED, LOADED>>
    /\ w_emitted = <<ProgressEmission(0), FinishedEmission(0, "error"),
                     ProgressEmission(1), FinishedEmission(1, "dataframe"),
                     ReadyEmission, AllFinishedEmission>>

====
